---- MODULE Spec2Model ----
(***************************************************************************)
(* A model of the mock Airflow API: the per-instance store                 *)
(* (airflow_mock/store.py InstanceStore), the entity models                *)
(* (airflow_mock/models.py) and the request handlers                       *)
(* (airflow_mock/api.py create_app).                                       *)
(*                                                                         *)
(* Python dicts keep insertion order, and list(), max() and slicing        *)
(* observe it, so every dict of the store is modelled as a sequence of     *)
(* [k, v] entries in insertion order.                                      *)
(***************************************************************************)
EXTENDS Integers, Sequences, FiniteSets, TLC

VARIABLES
    dags,            \* InstanceStore.dags:           dag_id -> DAG
    dag_runs,        \* InstanceStore.dag_runs:       dag_id -> run_id -> DAGRun
    task_instances,  \* InstanceStore.task_instances: dag_id -> run_id -> task_id -> TaskInstance
    task_logs,       \* InstanceStore.task_logs:      dag_id -> run_id -> task_id -> try_number -> TaskLog
    variables,       \* InstanceStore.variables:      key -> Variable
    connections,     \* InstanceStore.connections:    conn_id -> Connection
    xcoms,           \* InstanceStore.xcoms:          dag_id -> task_id -> key -> run_id -> XCom
    pools,           \* InstanceStore.pools:          name -> Pool
    providers,       \* InstanceStore.providers:      package_name -> Provider
    now,             \* the last value datetime.utcnow() returned
    req,             \* the last call made: a store method or a request handler, with its arguments
    resp,            \* its outcome: [status, body]
    ops,             \* the number of calls made so far
    instances,       \* MockStore.instances: instance_id -> InstanceStore
    servers,         \* MockServer.servers:  instance_id -> the running application
    cur,             \* the instance_id of the InstanceStore the nine variables above hold
    app,             \* the instance_id of the application the requests go to
    pending          \* the requests the server has received, and their answers once it ran them

storeVars == <<dags, dag_runs, task_instances, task_logs, variables, connections,
               xcoms, pools, providers>>
registryVars == <<instances, servers, cur, app>>
vars == <<dags, dag_runs, task_instances, task_logs, variables, connections,
          xcoms, pools, providers, now, req, resp, ops, instances, servers, cur, app,
          pending>>

----------------------------------------------------------------------------
(* Bounds of the model. *)

MaxOps == 3         \* calls in one behaviour of a specification that counts its calls
MaxTime == 2        \* the clock runs over 0..MaxTime
MaxSlots == 2       \* slot counts run over 0..MaxSlots
MaxPage == 2        \* limit and offset run up to MaxPage

----------------------------------------------------------------------------
(* Python values. *)

\* None where the other values are integers (dates, durations, limit, offset).
None == -1
\* None where the other values are strings (run_id, state filter, order_by).
NoneStr == "None"
\* None where the other values are entities (the Optional[...] results of the store).
NoneObj == [none |-> TRUE]

\* The outcome of a direct call of a store method (no HTTP status).
Returned == "returned"
\* The outcome of a direct call that ends with an exception.
Raised == "raised"
\* The HTTP statuses of the request layer.
OK == "200"
NotFound == "404"
Conflict == "409"
\* The answer to a request whose body does not parse into its model.
ValidationFailure == "422"
\* An exception no handler catches: the server answers 500.
InternalError == "500"

Min(a, b) == IF a < b THEN a ELSE b
Max(a, b) == IF a > b THEN a ELSE b

----------------------------------------------------------------------------
(* dict: a sequence of [k |-> key, v |-> value] in insertion order. *)

EmptyDict == << >>

\* k in d
DictHas(d, k) == \E i \in 1..Len(d) : d[i].k = k

DictIdx(d, k) == CHOOSE i \in 1..Len(d) : d[i].k = k

\* d.get(k, default)
DictGet(d, k, default) == IF DictHas(d, k) THEN d[DictIdx(d, k)].v ELSE default

\* A store that appends on every write, whether or not the key is there.
DictSetAlwaysAppends(d, k, v) == Append(d, [k |-> k, v |-> v])

\* d[k] = v: an existing key keeps its place, a new key goes last
DictSet(d, k, v) ==
    IF DictHas(d, k)
    THEN [d EXCEPT ![DictIdx(d, k)] = [k |-> k, v |-> v]]
    ELSE Append(d, [k |-> k, v |-> v])

\* del d[k], for a key that is present
DictDel(d, k) ==
    LET i == DictIdx(d, k)
    IN  [j \in 1..(Len(d) - 1) |-> IF j < i THEN d[j] ELSE d[j + 1]]

\* list(d.values())
DictValues(d) == [i \in 1..Len(d) |-> d[i].v]

----------------------------------------------------------------------------
(* Python sequence slicing. *)

\* The place a slice bound i denotes in a sequence of length n.
SliceBound(i, n) == IF i < 0 THEN Max(n + i, 0) ELSE Min(i, n)

\* s[a:b]
Slice(s, a, b) ==
    LET lo == SliceBound(a, Len(s))
        hi == SliceBound(b, Len(s))
    IN  IF hi <= lo THEN << >> ELSE [i \in 1..(hi - lo) |-> s[lo + i]]

\* s[a:]
SliceFrom(s, a) == Slice(s, a, Len(s))

\* s[:b]
SliceTo(s, b) == Slice(s, 0, b)

----------------------------------------------------------------------------
(* The entity models (models.py). A field the model does not follow is left *)
(* out; every field the store or a handler reads or writes is kept.         *)

DAG(dag_id, is_paused) == [dag_id |-> dag_id, is_paused |-> is_paused]

DAGRun(dag_id, run_id, execution_date, start_date, end_date, state) ==
    [dag_id |-> dag_id, run_id |-> run_id, execution_date |-> execution_date,
     start_date |-> start_date, end_date |-> end_date, state |-> state]

TaskInstance(task_id, dag_id, run_id, state, try_number, start_date, end_date, duration) ==
    [task_id |-> task_id, dag_id |-> dag_id, run_id |-> run_id, state |-> state,
     try_number |-> try_number, start_date |-> start_date, end_date |-> end_date,
     duration |-> duration]

TaskLog(try_number, content, timestamp) ==
    [try_number |-> try_number, content |-> content, timestamp |-> timestamp]

\* ClearTaskInstance: the body of a clear request.
ClearTaskInstance(dry_run, only_failed, only_running) ==
    [dry_run |-> dry_run, only_failed |-> only_failed, only_running |-> only_running]

Variable(key, value, description) ==
    [key |-> key, value |-> value, description |-> description]

Connection(conn_id, conn_type, host) ==
    [conn_id |-> conn_id, conn_type |-> conn_type, host |-> host]

XCom(key, value, timestamp, task_id, dag_id, run_id) ==
    [key |-> key, value |-> value, timestamp |-> timestamp, task_id |-> task_id,
     dag_id |-> dag_id, run_id |-> run_id]

\* Pool.__init__: whatever open_slots the data carries, the constructor overwrites
\* it with slots - occupied_slots.
Pool(name, slots, description, occupied_slots, queued_slots, running_slots, open_slots) ==
    [name |-> name, slots |-> slots, description |-> description,
     occupied_slots |-> occupied_slots, queued_slots |-> queued_slots,
     running_slots |-> running_slots, open_slots |-> slots - occupied_slots]

Provider(package_name, version, hooks) ==
    [package_name |-> package_name, version |-> version, hooks |-> hooks]

----------------------------------------------------------------------------
(* InstanceStore (store.py). A method that writes is an action on the one   *)
(* collection it writes; a method that reads is an operator on the state.   *)

\* `if k not in d: d[k] = {}`
SetDefault(d, k) == IF DictHas(d, k) THEN d ELSE DictSet(d, k, EmptyDict)

\* InstanceStore.__init__
InstanceStore ==
    /\ dags = EmptyDict
    /\ dag_runs = EmptyDict
    /\ task_instances = EmptyDict
    /\ task_logs = EmptyDict
    /\ variables = EmptyDict
    /\ connections = EmptyDict
    /\ xcoms = EmptyDict
    /\ pools = EmptyDict
    /\ providers = EmptyDict

add_dag(dag) == dags' = DictSet(dags, dag.dag_id, dag)

get_dag(dag_id) == DictGet(dags, dag_id, NoneObj)

add_dag_run(dag_run) ==
    LET byDag == SetDefault(dag_runs, dag_run.dag_id)
        byRun == DictGet(byDag, dag_run.dag_id, EmptyDict)
    IN  dag_runs' = DictSet(byDag, dag_run.dag_id, DictSet(byRun, dag_run.run_id, dag_run))

get_dag_run(dag_id, run_id) ==
    DictGet(DictGet(dag_runs, dag_id, EmptyDict), run_id, NoneObj)

\* The value of task_instances after add_task_instance(task_instance) on tis.
\* add_task_instance that assigns the run a new dict holding the task
\* instance alone.
TaskInstancesWithRunReplaced(tis, task_instance) ==
    LET byDag == SetDefault(tis, task_instance.dag_id)
    IN  DictSet(byDag, task_instance.dag_id,
            DictSet(DictGet(byDag, task_instance.dag_id, EmptyDict), task_instance.run_id,
                DictSet(EmptyDict, task_instance.task_id, task_instance)))

TaskInstancesWith(tis, task_instance) ==
    LET byDag == SetDefault(tis, task_instance.dag_id)
        byRun == SetDefault(DictGet(byDag, task_instance.dag_id, EmptyDict), task_instance.run_id)
        byTask == DictGet(byRun, task_instance.run_id, EmptyDict)
    IN  DictSet(byDag, task_instance.dag_id,
            DictSet(byRun, task_instance.run_id,
                DictSet(byTask, task_instance.task_id, task_instance)))

add_task_instance(task_instance) ==
    task_instances' = TaskInstancesWith(task_instances, task_instance)

get_task_instance(dag_id, run_id, task_id) ==
    DictGet(DictGet(DictGet(task_instances, dag_id, EmptyDict), run_id, EmptyDict),
            task_id, NoneObj)

get_task_instances(dag_id, run_id) ==
    DictValues(DictGet(DictGet(task_instances, dag_id, EmptyDict), run_id, EmptyDict))

add_task_log(dag_id, run_id, task_id, try_number, log) ==
    LET byDag == SetDefault(task_logs, dag_id)
        byRun == SetDefault(DictGet(byDag, dag_id, EmptyDict), run_id)
        byTask == SetDefault(DictGet(byRun, run_id, EmptyDict), task_id)
        byTry == DictGet(byTask, task_id, EmptyDict)
    IN  task_logs' =
            DictSet(byDag, dag_id,
                DictSet(byRun, run_id,
                    DictSet(byTask, task_id, DictSet(byTry, try_number, log))))

\* get_task_log that indexes the dicts, self.task_logs[dag_id][run_id]...,
\* and so raises KeyError at the first level that is missing.
get_task_log_by_index(dag_id, run_id, task_id, try_number) ==
    LET byRun == DictGet(task_logs, dag_id, EmptyDict)
        byTask == DictGet(byRun, run_id, EmptyDict)
        byTry == DictGet(byTask, task_id, EmptyDict)
    IN  DictGet(byTry, try_number, [raised |-> "KeyError"])

get_task_log(dag_id, run_id, task_id, try_number) ==
    DictGet(DictGet(DictGet(DictGet(task_logs, dag_id, EmptyDict), run_id, EmptyDict),
                    task_id, EmptyDict),
            try_number, NoneObj)

\* The task instance as clear_task_instance leaves it, stored too soon: the
\* fields are reset after the store has taken its copy of state and try_number.
ClearedKeepsDates(task_instance) ==
    [task_instance EXCEPT !.state = "none", !.try_number = 1]

\* The task instance as clear_task_instance leaves it.
Cleared(task_instance) ==
    [task_instance EXCEPT !.state = "none", !.try_number = 1, !.start_date = None,
                          !.end_date = None, !.duration = None]

clear_task_instance(task_instance) == add_task_instance(Cleared(task_instance))

\* bool(s) of an Optional[str]: None and "" are false.
Truthy(s) == s # NoneStr /\ s # ""

add_xcom_value(xcom) ==
    LET byDag == SetDefault(xcoms, xcom.dag_id)
        byTask == SetDefault(DictGet(byDag, xcom.dag_id, EmptyDict), xcom.task_id)
        byKey == SetDefault(DictGet(byTask, xcom.task_id, EmptyDict), xcom.key)
        byRun == DictGet(byKey, xcom.key, EmptyDict)
        stored == IF Truthy(xcom.run_id) THEN DictSet(byRun, xcom.run_id, xcom) ELSE byRun
    IN  xcoms' = DictSet(byDag, xcom.dag_id,
                    DictSet(byTask, xcom.task_id, DictSet(byKey, xcom.key, stored)))

\* self.xcoms.get(dag_id, {}).get(task_id, {}).get(key, {})
XComRuns(dag_id, task_id, key) ==
    DictGet(DictGet(DictGet(xcoms, dag_id, EmptyDict), task_id, EmptyDict), key, EmptyDict)

\* The entry a scan that keeps the smallest timestamp would return.
MinByTimestamp(xs) ==
    xs[CHOOSE i \in 1..Len(xs) :
            /\ \A j \in 1..Len(xs) : xs[j].timestamp >= xs[i].timestamp
            /\ \A j \in 1..(i - 1) : xs[j].timestamp > xs[i].timestamp]

\* max(xs, key=lambda x: x.timestamp) of a non-empty xs: the first, in iteration
\* order, of the entries whose timestamp is the greatest.
MaxByTimestamp(xs) ==
    xs[CHOOSE i \in 1..Len(xs) :
            /\ \A j \in 1..Len(xs) : xs[j].timestamp <= xs[i].timestamp
            /\ \A j \in 1..(i - 1) : xs[j].timestamp < xs[i].timestamp]

\* get_xcom_value on a given xcoms[dag_id][task_id][key] dict.
LatestOf(runs) == IF Len(runs) = 0 THEN NoneObj ELSE MaxByTimestamp(DictValues(runs))

get_xcom_value(dag_id, task_id, key, run_id) ==
    IF Truthy(run_id)
    THEN DictGet(XComRuns(dag_id, task_id, key), run_id, NoneObj)
    ELSE LatestOf(XComRuns(dag_id, task_id, key))

\* Pick that takes every value of d when d does not hold the key k.
PickAllWhenAbsent(d, k) ==
    IF Truthy(k) /\ DictHas(d, k) THEN <<DictGet(d, k, NoneObj)>> ELSE DictValues(d)

\* One level of list_xcom_values on the dict d: `[k] if k else list(d.keys())`
\* with the keys d does not hold skipped; the values d holds under them.
Pick(d, k) ==
    IF Truthy(k)
    THEN IF DictHas(d, k) THEN <<DictGet(d, k, NoneObj)>> ELSE <<>>
    ELSE DictValues(d)

\* The concatenation of the sequences in ss: what nested loops append to
\* `result`, in their order.
RECURSIVE Concat(_)
Concat(ss) == IF Len(ss) = 0 THEN <<>> ELSE Head(ss) \o Concat(Tail(ss))

list_xcom_values(dag_id, task_id, run_id, key) ==
    LET byTasks == Pick(xcoms, dag_id)
        byKeys == Concat([i \in 1..Len(byTasks) |-> Pick(byTasks[i], task_id)])
        byRuns == Concat([i \in 1..Len(byKeys) |-> Pick(byKeys[i], key)])
    IN  Concat([i \in 1..Len(byRuns) |-> Pick(byRuns[i], run_id)])

\* delete_xcom_value: TRUE when the del statement raises KeyError.
DeleteXComKeyError(dag_id, task_id, key, run_id) ==
    \/ ~DictHas(xcoms, dag_id)
    \/ ~DictHas(DictGet(xcoms, dag_id, EmptyDict), task_id)
    \/ ~DictHas(DictGet(DictGet(xcoms, dag_id, EmptyDict), task_id, EmptyDict), key)
    \/ Truthy(run_id) /\ ~DictHas(XComRuns(dag_id, task_id, key), run_id)

\* delete_xcom_value: its effect on xcoms.
delete_xcom_value(dag_id, task_id, key, run_id) ==
    IF DeleteXComKeyError(dag_id, task_id, key, run_id)
    THEN xcoms' = xcoms
    ELSE LET byTask == DictGet(xcoms, dag_id, EmptyDict)
             byKey == DictGet(byTask, task_id, EmptyDict)
             byRun == DictGet(byKey, key, EmptyDict)
             byKey2 == IF Truthy(run_id)
                       THEN DictSet(byKey, key, DictDel(byRun, run_id))
                       ELSE DictDel(byKey, key)
         IN  xcoms' = DictSet(xcoms, dag_id, DictSet(byTask, task_id, byKey2))

----------------------------------------------------------------------------
(* Ordering and pagination of the list methods. *)

\* The strings the model orders, in Python's (lexicographic) order.
StrOrder == <<"a", "b", "c1", "c2", "k1", "k2", "p1", "p2", "p3", "pk1", "pk2">>

StrRank(s) == CHOOSE i \in 1..Len(StrOrder) : StrOrder[i] = s

\* The fields whose values are integers; the other fields hold strings.
IntFields == {"slots", "occupied_slots", "queued_slots", "running_slots", "open_slots"}

\* a < b for two values of the field
FieldLt(field, a, b) ==
    IF field \in IntFields THEN a < b ELSE StrRank(a) < StrRank(b)

\* order_by.startswith('-'), and order_by[1:], for the order_by values of the model
StartsWithDash(order_by) ==
    order_by \in {"-name", "-slots", "-key", "-value", "-package_name", "-version",
                  "-description", "-"}

StripDash(order_by) ==
    CASE order_by = "-name" -> "name"
      [] order_by = "-slots" -> "slots"
      [] order_by = "-key" -> "key"
      [] order_by = "-value" -> "value"
      [] order_by = "-package_name" -> "package_name"
      [] order_by = "-version" -> "version"
      [] order_by = "-description" -> "description"
      [] order_by = "-" -> ""

\* xs.sort(key=lambda x: getattr(x, key), reverse=reverse): a stable sort, and
\* with reverse too the entries of equal key keep their order.
Sort(xs, key, reverse) ==
    LET Before(j, i) ==
            /\ j # i
            /\ \/ IF reverse THEN FieldLt(key, xs[i][key], xs[j][key])
                             ELSE FieldLt(key, xs[j][key], xs[i][key])
               \/ xs[j][key] = xs[i][key] /\ j < i
        Place(i) == 1 + Cardinality({j \in 1..Len(xs) : Before(j, i)})
    IN  [p \in 1..Len(xs) |-> xs[CHOOSE i \in 1..Len(xs) : Place(i) = p]]

\* `if order_by: ...sort(...)`
OrderBy(xs, order_by) ==
    IF Truthy(order_by)
    THEN LET reverse == StartsWithDash(order_by)
             key == IF reverse THEN StripDash(order_by) ELSE order_by
         IN  Sort(xs, key, reverse)
    ELSE xs

\* `if order_by: ...sort(key=lambda x: getattr(x, key), ...)` raises: getattr
\* raises AttributeError on the first entity when the model has no field
\* `key`, and with two or more entities the comparison of the keys raises
\* TypeError when one of them is None.  An empty list is sorted without a
\* call of the key function, and a single entity without a comparison.
OrderByRaises(xs, order_by) ==
    /\ Truthy(order_by)
    /\ Len(xs) > 0
    /\ LET key == IF StartsWithDash(order_by) THEN StripDash(order_by) ELSE order_by
       IN  \/ key \notin DOMAIN xs[1]
           \/ /\ Len(xs) >= 2
              /\ key \notin IntFields
              /\ \E i \in 1..Len(xs) : xs[i][key] = NoneStr

\* Pagination that cuts the page before it skips the offset.
PaginateLimitFirst(xs, limit, offset) ==
    LET cut == IF limit # None THEN SliceTo(xs, limit) ELSE xs
    IN  IF offset # None THEN SliceFrom(cut, offset) ELSE cut

\* `if offset is not None: xs = xs[offset:]`, `if limit is not None: xs = xs[:limit]`
Paginate(xs, limit, offset) ==
    LET skipped == IF offset # None THEN SliceFrom(xs, offset) ELSE xs
    IN  IF limit # None THEN SliceTo(skipped, limit) ELSE skipped

\* xs[offset:offset + limit] of the request handlers
Page(xs, limit, offset) == Slice(xs, offset, offset + limit)

----------------------------------------------------------------------------
(* InstanceStore: pools, variables, connections, providers. *)

add_pool(pool) == pools' = DictSet(pools, pool.name, pool)

get_pool(name) == DictGet(pools, name, NoneObj)

\* list_pools that cuts the page out before it sorts.
list_pools_page_first(limit, offset, order_by) ==
    OrderBy(Paginate(DictValues(pools), limit, offset), order_by)

list_pools(limit, offset, order_by) ==
    Paginate(OrderBy(DictValues(pools), order_by), limit, offset)

\* delete_*: the del statement raises KeyError, and the method returns False,
\* exactly when the key is absent.
delete_pool(name) ==
    pools' = IF DictHas(pools, name) THEN DictDel(pools, name) ELSE pools

\* A keyword argument of a call, or its default when the call omits it.
Arg(kwargs, name, default) ==
    IF name \in DOMAIN kwargs THEN kwargs[name] ELSE default

\* update_pool_slots that forgets to re-derive open_slots.
PoolWithSlotsStale(pool, occupied, queued, running) ==
    [pool EXCEPT !.occupied_slots = occupied, !.queued_slots = queued,
                 !.running_slots = running]

\* The pool as update_pool_slots leaves it.
PoolWithSlots(pool, occupied, queued, running) ==
    [pool EXCEPT !.occupied_slots = occupied, !.queued_slots = queued,
                 !.running_slots = running, !.open_slots = pool.slots - occupied]

\* update_pool_slots(name, occupied=0, queued=0, running=0): its effect on pools.
update_pool_slots(name, occupied, queued, running) ==
    LET pool == get_pool(name)
    IN  IF pool # NoneObj
        THEN pools' = DictSet(pools, name, PoolWithSlots(pool, occupied, queued, running))
        ELSE pools' = pools

add_variable(variable) == variables' = DictSet(variables, variable.key, variable)

get_variable(key) == DictGet(variables, key, NoneObj)

list_variables(limit, offset, order_by) ==
    Paginate(OrderBy(DictValues(variables), order_by), limit, offset)

delete_variable(key) ==
    variables' = IF DictHas(variables, key) THEN DictDel(variables, key) ELSE variables

add_connection(connection) ==
    connections' = DictSet(connections, connection.conn_id, connection)

get_connection(conn_id) == DictGet(connections, conn_id, NoneObj)

list_connections(limit, offset) == Paginate(DictValues(connections), limit, offset)

delete_connection(conn_id) ==
    connections' = IF DictHas(connections, conn_id)
                   THEN DictDel(connections, conn_id) ELSE connections

add_provider(provider) ==
    providers' = DictSet(providers, provider.package_name, provider)

get_provider(package_name) == DictGet(providers, package_name, NoneObj)

get_provider_hooks(package_name) ==
    IF get_provider(package_name) # NoneObj THEN get_provider(package_name).hooks ELSE <<>>

list_providers(limit, offset, order_by) ==
    Paginate(OrderBy(DictValues(providers), order_by), limit, offset)

delete_provider(package_name) ==
    providers' = IF DictHas(providers, package_name)
                 THEN DictDel(providers, package_name) ELSE providers

----------------------------------------------------------------------------
(* Calls and their outcomes. *)

\* The call made and what it answered.
Respond(op, args, status, body) ==
    /\ req' = [op |-> op, args |-> args]
    /\ resp' = [status |-> status, body |-> body]

\* A *Collection response model: the page and total_entries.
Collection(items, total_entries) == [items |-> items, total_entries |-> total_entries]

\* TaskInstanceActionResponse
TaskInstanceActionResponse(task_id, dag_id, run_id, state, message) ==
    [task_id |-> task_id, dag_id |-> dag_id, run_id |-> run_id, state |-> state,
     message |-> message]

\* The values datetime.utcnow() can return at a call that follows one returning t.
UtcNow(t) == t..MaxTime

----------------------------------------------------------------------------
(* Direct calls of the store's methods, as populate_instance and any other  *)
(* holder of the InstanceStore makes them.                                  *)

Call_add_dag(dag) ==
    /\ add_dag(dag)
    /\ Respond("add_dag", [dag |-> dag], Returned, NoneObj)
    /\ UNCHANGED <<dag_runs, task_instances, task_logs, variables, connections, xcoms,
                   pools, providers, now>>

Call_add_dag_run(dag_run) ==
    /\ add_dag_run(dag_run)
    /\ Respond("add_dag_run", [dag_run |-> dag_run], Returned, NoneObj)
    /\ UNCHANGED <<dags, task_instances, task_logs, variables, connections, xcoms,
                   pools, providers, now>>

Call_add_task_instance(task_instance) ==
    /\ add_task_instance(task_instance)
    /\ Respond("add_task_instance", [task_instance |-> task_instance], Returned, NoneObj)
    /\ UNCHANGED <<dags, dag_runs, task_logs, variables, connections, xcoms,
                   pools, providers, now>>

Call_add_task_log(dag_id, run_id, task_id, try_number, log) ==
    /\ add_task_log(dag_id, run_id, task_id, try_number, log)
    /\ Respond("add_task_log",
               [dag_id |-> dag_id, run_id |-> run_id, task_id |-> task_id,
                try_number |-> try_number, log |-> log], Returned, NoneObj)
    /\ UNCHANGED <<dags, dag_runs, task_instances, variables, connections, xcoms,
                   pools, providers, now>>

Call_clear_task_instance(task_instance) ==
    /\ clear_task_instance(task_instance)
    /\ Respond("clear_task_instance", [task_instance |-> task_instance], Returned, NoneObj)
    /\ UNCHANGED <<dags, dag_runs, task_logs, variables, connections, xcoms,
                   pools, providers, now>>

Call_add_xcom_value(xcom) ==
    /\ add_xcom_value(xcom)
    /\ Respond("add_xcom_value", [xcom |-> xcom], Returned, NoneObj)
    /\ UNCHANGED <<dags, dag_runs, task_instances, task_logs, variables, connections,
                   pools, providers, now>>

Call_get_xcom_value(dag_id, task_id, key, run_id) ==
    /\ Respond("get_xcom_value",
               [dag_id |-> dag_id, task_id |-> task_id, key |-> key, run_id |-> run_id],
               Returned, get_xcom_value(dag_id, task_id, key, run_id))
    /\ UNCHANGED <<storeVars, now>>

\* A call of one of the store's lookup methods, with the value it returned.
Call_lookup(method, args, returned) ==
    /\ Respond(method, args, Returned, [value |-> returned])
    /\ UNCHANGED <<storeVars, now>>

Call_delete_xcom_value(dag_id, task_id, key, run_id) ==
    /\ delete_xcom_value(dag_id, task_id, key, run_id)
    /\ Respond("delete_xcom_value",
               [dag_id |-> dag_id, task_id |-> task_id, key |-> key, run_id |-> run_id],
               Returned, [value |-> ~DeleteXComKeyError(dag_id, task_id, key, run_id)])
    /\ UNCHANGED <<dags, dag_runs, task_instances, task_logs, variables, connections,
                   pools, providers, now>>

Call_add_pool(pool) ==
    /\ add_pool(pool)
    /\ Respond("add_pool", [pool |-> pool], Returned, NoneObj)
    /\ UNCHANGED <<dags, dag_runs, task_instances, task_logs, variables, connections,
                   xcoms, providers, now>>

Call_list_pools(limit, offset, order_by) ==
    /\ IF OrderByRaises(DictValues(pools), order_by)
       THEN Respond("list_pools", [limit |-> limit, offset |-> offset, order_by |-> order_by],
                    Raised, NoneObj)
       ELSE Respond("list_pools", [limit |-> limit, offset |-> offset, order_by |-> order_by],
                    Returned, [items |-> list_pools(limit, offset, order_by)])
    /\ UNCHANGED <<storeVars, now>>

Call_delete_pool(name) ==
    /\ delete_pool(name)
    /\ Respond("delete_pool", [name |-> name], Returned,
               [value |-> DictHas(pools, name)])
    /\ UNCHANGED <<dags, dag_runs, task_instances, task_logs, variables, connections,
                   xcoms, providers, now>>

\* update_pool_slots(name, **kwargs): kwargs holds the arguments the caller
\* supplies among occupied, queued and running; the others take the default 0.
Call_update_pool_slots(name, kwargs) ==
    /\ update_pool_slots(name, Arg(kwargs, "occupied", 0), Arg(kwargs, "queued", 0),
                         Arg(kwargs, "running", 0))
    /\ Respond("update_pool_slots", [name |-> name, kwargs |-> kwargs], Returned,
               get_pool(name)')
    /\ UNCHANGED <<dags, dag_runs, task_instances, task_logs, variables, connections,
                   xcoms, providers, now>>

Call_add_variable(variable) ==
    /\ add_variable(variable)
    /\ Respond("add_variable", [variable |-> variable], Returned, NoneObj)
    /\ UNCHANGED <<dags, dag_runs, task_instances, task_logs, connections, xcoms,
                   pools, providers, now>>

Call_list_variables(limit, offset, order_by) ==
    /\ IF OrderByRaises(DictValues(variables), order_by)
       THEN Respond("list_variables", [limit |-> limit, offset |-> offset, order_by |-> order_by],
                    Raised, NoneObj)
       ELSE Respond("list_variables", [limit |-> limit, offset |-> offset, order_by |-> order_by],
                    Returned, [items |-> list_variables(limit, offset, order_by)])
    /\ UNCHANGED <<storeVars, now>>

Call_delete_variable(key) ==
    /\ delete_variable(key)
    /\ Respond("delete_variable", [key |-> key], Returned,
               [value |-> DictHas(variables, key)])
    /\ UNCHANGED <<dags, dag_runs, task_instances, task_logs, connections, xcoms,
                   pools, providers, now>>

Call_add_connection(connection) ==
    /\ add_connection(connection)
    /\ Respond("add_connection", [connection |-> connection], Returned, NoneObj)
    /\ UNCHANGED <<dags, dag_runs, task_instances, task_logs, variables, xcoms,
                   pools, providers, now>>

Call_list_connections(limit, offset) ==
    /\ Respond("list_connections", [limit |-> limit, offset |-> offset],
               Returned, [items |-> list_connections(limit, offset)])
    /\ UNCHANGED <<storeVars, now>>

Call_delete_connection(conn_id) ==
    /\ delete_connection(conn_id)
    /\ Respond("delete_connection", [conn_id |-> conn_id], Returned,
               [value |-> DictHas(connections, conn_id)])
    /\ UNCHANGED <<dags, dag_runs, task_instances, task_logs, variables, xcoms,
                   pools, providers, now>>

Call_add_provider(provider) ==
    /\ add_provider(provider)
    /\ Respond("add_provider", [provider |-> provider], Returned, NoneObj)
    /\ UNCHANGED <<dags, dag_runs, task_instances, task_logs, variables, connections,
                   xcoms, pools, now>>

Call_list_providers(limit, offset, order_by) ==
    /\ IF OrderByRaises(DictValues(providers), order_by)
       THEN Respond("list_providers", [limit |-> limit, offset |-> offset, order_by |-> order_by],
                    Raised, NoneObj)
       ELSE Respond("list_providers", [limit |-> limit, offset |-> offset, order_by |-> order_by],
                    Returned, [items |-> list_providers(limit, offset, order_by)])
    /\ UNCHANGED <<storeVars, now>>

Call_delete_provider(package_name) ==
    /\ delete_provider(package_name)
    /\ Respond("delete_provider", [package_name |-> package_name], Returned,
               [value |-> DictHas(providers, package_name)])
    /\ UNCHANGED <<dags, dag_runs, task_instances, task_logs, variables, connections,
                   xcoms, pools, now>>

----------------------------------------------------------------------------
(* The request handlers of create_app (api.py) that work on instance_store, *)
(* the store create_app looked up for its instance.                         *)

\* GET /api/v1/dags: the response body
list_dags_response(limit, offset) ==
    LET all == DictValues(dags)
    IN  Collection(Page(all, limit, offset), Len(all))

api_list_dags(limit, offset) ==
    /\ Respond("api_list_dags", [limit |-> limit, offset |-> offset], OK,
               list_dags_response(limit, offset))
    /\ UNCHANGED <<storeVars, now>>

\* list_dag_runs with total_entries counted before the state filter.
list_dag_runs_counts_unfiltered(dag_id, limit, offset, execution_date_gte, execution_date_lte, state) ==
    LET all == DictValues(DictGet(dag_runs, dag_id, EmptyDict))
        gte == IF execution_date_gte # None
               THEN SelectSeq(all, LAMBDA dr : dr.execution_date >= execution_date_gte)
               ELSE all
        lte == IF execution_date_lte # None
               THEN SelectSeq(gte, LAMBDA dr : dr.execution_date <= execution_date_lte)
               ELSE gte
        filtered == IF Truthy(state)
                    THEN SelectSeq(lte, LAMBDA dr : dr.state = state)
                    ELSE lte
    IN  IF ~DictHas(dag_runs, dag_id)
        THEN Collection(<< >>, 0)
        ELSE Collection(Page(filtered, limit, offset), Len(lte))

\* GET /api/v1/dags/{dag_id}/dagRuns: the response body
list_dag_runs_response(dag_id, limit, offset, execution_date_gte, execution_date_lte, state) ==
    LET all == DictValues(DictGet(dag_runs, dag_id, EmptyDict))
        gte == IF execution_date_gte # None
               THEN SelectSeq(all, LAMBDA dr : dr.execution_date >= execution_date_gte)
               ELSE all
        lte == IF execution_date_lte # None
               THEN SelectSeq(gte, LAMBDA dr : dr.execution_date <= execution_date_lte)
               ELSE gte
        filtered == IF Truthy(state)
                    THEN SelectSeq(lte, LAMBDA dr : dr.state = state)
                    ELSE lte
    IN  IF ~DictHas(dag_runs, dag_id)
        THEN Collection(<< >>, 0)
        ELSE Collection(Page(filtered, limit, offset), Len(filtered))

api_list_dag_runs(dag_id, limit, offset, execution_date_gte, execution_date_lte, state) ==
    /\ Respond("api_list_dag_runs",
               [dag_id |-> dag_id, limit |-> limit, offset |-> offset,
                execution_date_gte |-> execution_date_gte,
                execution_date_lte |-> execution_date_lte, state |-> state], OK,
               list_dag_runs_response(dag_id, limit, offset, execution_date_gte,
                                      execution_date_lte, state))
    /\ UNCHANGED <<storeVars, now>>

\* The clock values that make one second: strftime('%Y-%m-%dT%H:%M:%S') drops
\* what is below the second.
TicksPerSecond == 2

\* f"manual__{datetime.utcnow().strftime('%Y-%m-%dT%H:%M:%S')}" when utcnow() is t
ManualRunId(t) == "manual__" \o ToString(t \div TicksPerSecond)

\* `dag_run: DAGRun = Body(...)`: the request body is parsed into a DAGRun
\* before the handler runs.  dag_id and run_id are required strings (a body
\* that leaves one out or gives null is refused); execution_date takes
\* utcnow(), here t, when the body leaves it out.
DAGRunBodyValid(body) == body.dag_id # NoneStr /\ body.run_id # NoneStr

ParsedDAGRun(body, t) ==
    [body EXCEPT !.execution_date = IF body.execution_date = None THEN t ELSE @]

\* create_dag_run that stores the run under the dag_id of the body.
CreatedRunKeepsBodyDag(dag_id, dag_run, t1, t2) ==
    [dag_run EXCEPT !.run_id = IF Truthy(dag_run.run_id) THEN @ ELSE ManualRunId(t1),
                    !.start_date = IF dag_run.start_date = None THEN t2 ELSE @]

\* The run create_dag_run stores for the parsed body dag_run, where t1 and t2
\* are what utcnow() returns for the run_id and for the start_date.  (The
\* parsed execution_date is never unset, so its default is never taken.)
CreatedRun(dag_id, dag_run, t1, t2) ==
    [dag_run EXCEPT !.dag_id = dag_id,
                    !.run_id = IF Truthy(dag_run.run_id) THEN @ ELSE ManualRunId(t1),
                    !.start_date = IF dag_run.start_date = None THEN t2 ELSE @]

\* POST /api/v1/dags/{dag_id}/dagRuns
api_create_dag_run(dag_id, dag_run) ==
    LET args == [dag_id |-> dag_id, dag_run |-> dag_run]
    IN  IF ~DAGRunBodyValid(dag_run)
        THEN /\ Respond("api_create_dag_run", args, ValidationFailure, NoneObj)
             /\ UNCHANGED <<storeVars, now>>
        ELSE \E t0 \in UtcNow(now) :
             /\ dag_run.execution_date # None => t0 = now
             /\ IF ~DictHas(dags, dag_id)
                THEN /\ Respond("api_create_dag_run", args, NotFound, NoneObj)
                     /\ now' = t0
                     /\ UNCHANGED storeVars
                ELSE \E t1 \in UtcNow(t0) : \E t2 \in UtcNow(t1) :
                     /\ Truthy(dag_run.run_id) => t1 = t0
                     /\ dag_run.start_date # None => t2 = t1
                     /\ add_dag_run(CreatedRun(dag_id, ParsedDAGRun(dag_run, t0), t1, t2))
                     /\ now' = t2
                     /\ Respond("api_create_dag_run", args, OK,
                                CreatedRun(dag_id, ParsedDAGRun(dag_run, t0), t1, t2))
                     /\ UNCHANGED <<dags, task_instances, task_logs, variables,
                                    connections, xcoms, pools, providers>>

\* update_dag_run that stores the body under its own dag_id and run_id.
UpdatedRunKeepsBodyKeys(dag_id, run_id, dag_run) == dag_run

\* The run update_dag_run stores for the parsed body dag_run.
UpdatedRun(dag_id, run_id, dag_run) ==
    [dag_run EXCEPT !.dag_id = dag_id, !.run_id = run_id]

\* PATCH /api/v1/dags/{dag_id}/dagRuns/{run_id}
api_update_dag_run(dag_id, run_id, dag_run) ==
    LET args == [dag_id |-> dag_id, run_id |-> run_id, dag_run |-> dag_run]
    IN  IF ~DAGRunBodyValid(dag_run)
        THEN /\ Respond("api_update_dag_run", args, ValidationFailure, NoneObj)
             /\ UNCHANGED <<storeVars, now>>
        ELSE \E t0 \in UtcNow(now) :
             /\ dag_run.execution_date # None => t0 = now
             /\ now' = t0
             /\ IF get_dag_run(dag_id, run_id) = NoneObj
                THEN /\ Respond("api_update_dag_run", args, NotFound, NoneObj)
                     /\ UNCHANGED storeVars
                ELSE /\ add_dag_run(UpdatedRun(dag_id, run_id, ParsedDAGRun(dag_run, t0)))
                     /\ Respond("api_update_dag_run", args, OK,
                                UpdatedRun(dag_id, run_id, ParsedDAGRun(dag_run, t0)))
                     /\ UNCHANGED <<dags, task_instances, task_logs, variables,
                                    connections, xcoms, pools, providers>>

\* GET /api/v1/dags/{dag_id}/dagRuns/{run_id}/taskInstances: the response body
list_task_instances_response(dag_id, run_id, limit, offset, state) ==
    LET all == get_task_instances(dag_id, run_id)
        filtered == IF Truthy(state)
                    THEN SelectSeq(all, LAMBDA ti : ti.state = state)
                    ELSE all
    IN  Collection(Page(filtered, limit, offset), Len(filtered))

api_list_task_instances(dag_id, run_id, limit, offset, state) ==
    /\ Respond("api_list_task_instances",
               [dag_id |-> dag_id, run_id |-> run_id, limit |-> limit,
                offset |-> offset, state |-> state], OK,
               list_task_instances_response(dag_id, run_id, limit, offset, state))
    /\ UNCHANGED <<storeVars, now>>

\* set_task_instance_state with the running branch leaving end_date as it was.
StateSetKeepsEndDate(task_instance, state, t1, t2) ==
    IF state = "running"
    THEN [task_instance EXCEPT !.state = state, !.start_date = t1]
    ELSE IF state \in {"success", "failed", "skipped"}
    THEN LET start == IF task_instance.start_date = None THEN t1
                      ELSE task_instance.start_date
         IN  [task_instance EXCEPT !.state = state, !.start_date = start,
                                   !.end_date = t2, !.duration = t2 - start]
    ELSE [task_instance EXCEPT !.state = state]

\* set_task_instance_state with the terminal branch taking a new start_date
\* whether or not the task instance has one.
StateSetRestarts(task_instance, state, t1, t2) ==
    IF state = "running"
    THEN [task_instance EXCEPT !.state = state, !.start_date = t1, !.end_date = None]
    ELSE IF state \in {"success", "failed", "skipped"}
    THEN [task_instance EXCEPT !.state = state, !.start_date = t1,
                               !.end_date = t2, !.duration = t2 - t1]
    ELSE [task_instance EXCEPT !.state = state]

\* set_task_instance_state with the running branch clearing the duration too.
StateSetRunningClearsDuration(task_instance, state, t1, t2) ==
    IF state = "running"
    THEN [task_instance EXCEPT !.state = state, !.start_date = t1, !.end_date = None,
                               !.duration = None]
    ELSE IF state \in {"success", "failed", "skipped"}
    THEN LET start == IF task_instance.start_date = None THEN t1
                      ELSE task_instance.start_date
         IN  [task_instance EXCEPT !.state = state, !.start_date = start,
                                   !.end_date = t2, !.duration = t2 - start]
    ELSE [task_instance EXCEPT !.state = state]

\* set_task_instance_state with a last branch that starts the task instance
\* afresh for a state outside the four it knows.
StateSetOtherStartsAfresh(task_instance, state, t1, t2) ==
    IF state = "running"
    THEN [task_instance EXCEPT !.state = state, !.start_date = t1, !.end_date = None]
    ELSE IF state \in {"success", "failed", "skipped"}
    THEN LET start == IF task_instance.start_date = None THEN t1
                      ELSE task_instance.start_date
         IN  [task_instance EXCEPT !.state = state, !.start_date = start,
                                   !.end_date = t2, !.duration = t2 - start]
    ELSE [task_instance EXCEPT !.state = state, !.start_date = None, !.end_date = None,
                               !.duration = None]

\* The task instance as set_task_instance_state leaves it, where t1 and t2 are
\* what the first and the second datetime.utcnow() of the branch return.
StateSet(task_instance, state, t1, t2) ==
    IF state = "running"
    THEN [task_instance EXCEPT !.state = state, !.start_date = t1, !.end_date = None]
    ELSE IF state \in {"success", "failed", "skipped"}
    THEN LET start == IF task_instance.start_date = None THEN t1
                      ELSE task_instance.start_date
         IN  [task_instance EXCEPT !.state = state, !.start_date = start,
                                   !.end_date = t2, !.duration = t2 - start]
    ELSE [task_instance EXCEPT !.state = state]

\* The clock after the utcnow() calls of set_task_instance_state.
ClockAfterStateSet(task_instance, state, t1, t2) ==
    IF state = "running" THEN t1
    ELSE IF state \in {"success", "failed", "skipped"} THEN t2
    ELSE now

\* POST .../taskInstances/{task_id}/setTaskInstanceState
api_set_task_instance_state(dag_id, run_id, task_id, state) ==
    LET task_instance == get_task_instance(dag_id, run_id, task_id)
        args == [dag_id |-> dag_id, run_id |-> run_id, task_id |-> task_id,
                 state |-> state]
    IN  IF task_instance = NoneObj
        THEN /\ Respond("api_set_task_instance_state", args, NotFound, NoneObj)
             /\ UNCHANGED <<storeVars, now>>
        ELSE \E t1 \in UtcNow(now) : \E t2 \in UtcNow(t1) :
             \* without a start_date the terminal branch reads the clock twice,
             \* with one it reads it once (t1 is then not a reading)
             /\ (state \in {"success", "failed", "skipped"}
                    /\ task_instance.start_date # None) => t1 = now
             /\ state \notin {"running", "success", "failed", "skipped"} => t1 = now /\ t2 = now
             /\ state = "running" => t2 = t1
             /\ add_task_instance(StateSet(task_instance, state, t1, t2))
             /\ now' = ClockAfterStateSet(task_instance, state, t1, t2)
             /\ Respond("api_set_task_instance_state", args, OK,
                        TaskInstanceActionResponse(task_id, dag_id, run_id, state, "state set"))
             /\ UNCHANGED <<dags, dag_runs, task_logs, variables, connections, xcoms,
                            pools, providers>>

\* should_clear of the clear handler with the dry_run flag left out of the test.
ShouldClearIgnoresDryRun(clear_request, task_instance) ==
    /\ ~(clear_request.only_failed /\ task_instance.state # "failed")
    /\ ~(clear_request.only_running /\ task_instance.state # "running")

\* `should_clear and not clear_request.dry_run` of the clear handler
ShouldClear(clear_request, task_instance) ==
    /\ ~(clear_request.only_failed /\ task_instance.state # "failed")
    /\ ~(clear_request.only_running /\ task_instance.state # "running")
    /\ ~clear_request.dry_run

\* POST .../taskInstances/{task_id}/clearTaskInstance
api_clear_task_instance(dag_id, run_id, task_id, clear_request) ==
    LET task_instance == get_task_instance(dag_id, run_id, task_id)
        args == [dag_id |-> dag_id, run_id |-> run_id, task_id |-> task_id,
                 clear_request |-> clear_request]
    IN  IF task_instance = NoneObj
        THEN /\ Respond("api_clear_task_instance", args, NotFound, NoneObj)
             /\ UNCHANGED <<storeVars, now>>
        ELSE /\ IF ShouldClear(clear_request, task_instance)
                THEN /\ clear_task_instance(task_instance)
                     /\ Respond("api_clear_task_instance", args, OK,
                            TaskInstanceActionResponse(task_id, dag_id, run_id,
                                Cleared(task_instance).state, "Task instance cleared"))
                ELSE /\ task_instances' = task_instances
                     /\ Respond("api_clear_task_instance", args, OK,
                            TaskInstanceActionResponse(task_id, dag_id, run_id,
                                task_instance.state, "Task instance not cleared"))
             /\ UNCHANGED <<dags, dag_runs, task_logs, variables, connections, xcoms,
                            pools, providers, now>>

\* GET .../taskInstances/{task_id}/logs/{try_number}: a log that is not stored
\* is made up, stored and returned.
api_get_task_logs(dag_id, run_id, task_id, try_number) ==
    LET args == [dag_id |-> dag_id, run_id |-> run_id, task_id |-> task_id,
                 try_number |-> try_number]
        task_log == get_task_log(dag_id, run_id, task_id, try_number)
    IN  IF task_log # NoneObj
        THEN /\ Respond("api_get_task_logs", args, OK, task_log)
             /\ UNCHANGED <<storeVars, now>>
        ELSE \E t \in UtcNow(now) :
             LET made == TaskLog(try_number,
                                 "No logs found for task " \o task_id \o " (try "
                                     \o ToString(try_number) \o ")", t)
             IN  /\ add_task_log(dag_id, run_id, task_id, try_number, made)
                 /\ now' = t
                 /\ Respond("api_get_task_logs", args, OK, made)
                 /\ UNCHANGED <<dags, dag_runs, task_instances, variables, connections,
                                xcoms, pools, providers>>

----------------------------------------------------------------------------
(* The request handlers that begin with `store = get_store(instance_id)`.   *)
(* api.py neither defines nor imports get_store (it imports only `store`),  *)
(* so the name lookup raises NameError before the handler reads or writes   *)
(* anything, and the server answers 500.                                    *)

get_store_raises(op, args) ==
    /\ Respond(op, args, InternalError, NoneObj)
    /\ UNCHANGED <<storeVars, now>>

\* GET .../taskInstances/{task_id}/xcomEntries/{key}
api_get_xcom_entry(dag_id, run_id, task_id, key) ==
    get_store_raises("api_get_xcom_entry",
        [dag_id |-> dag_id, run_id |-> run_id, task_id |-> task_id, key |-> key])

\* POST .../taskInstances/{task_id}/xcomEntries
api_create_xcom_entry(dag_id, run_id, task_id, xcom) ==
    get_store_raises("api_create_xcom_entry",
        [dag_id |-> dag_id, run_id |-> run_id, task_id |-> task_id, xcom |-> xcom])

\* DELETE .../taskInstances/{task_id}/xcomEntries/{key}
api_delete_xcom_entry(dag_id, run_id, task_id, key) ==
    get_store_raises("api_delete_xcom_entry",
        [dag_id |-> dag_id, run_id |-> run_id, task_id |-> task_id, key |-> key])

\* GET /api/v1/connections, with its query parameter instance_id (which the
\* other handlers of this section take as well, and pass to get_store).
api_list_connections(limit, offset, instance_id) ==
    get_store_raises("api_list_connections",
        [limit |-> limit, offset |-> offset, instance_id |-> instance_id])

\* POST /api/v1/connections
api_create_connection(connection) ==
    get_store_raises("api_create_connection", [key |-> connection.conn_id, body |-> connection])

\* PATCH /api/v1/connections/{conn_id}
api_update_connection(conn_id, connection) ==
    get_store_raises("api_update_connection", [key |-> conn_id, body |-> connection])

\* DELETE /api/v1/connections/{conn_id}
api_delete_connection(conn_id) ==
    get_store_raises("api_delete_connection", [key |-> conn_id])

\* GET /api/v1/variables
api_list_variables(limit, offset, order_by) ==
    get_store_raises("api_list_variables",
        [limit |-> limit, offset |-> offset, order_by |-> order_by])

\* POST /api/v1/variables
api_create_variable(variable) ==
    get_store_raises("api_create_variable", [key |-> variable.key, body |-> variable])

\* PATCH /api/v1/variables/{key}
api_update_variable(key, variable) ==
    get_store_raises("api_update_variable", [key |-> key, body |-> variable])

\* DELETE /api/v1/variables/{key}
api_delete_variable(key) ==
    get_store_raises("api_delete_variable", [key |-> key])

\* GET /api/v1/pools
api_list_pools(limit, offset, order_by) ==
    get_store_raises("api_list_pools",
        [limit |-> limit, offset |-> offset, order_by |-> order_by])

\* POST /api/v1/pools
api_create_pool(pool) ==
    get_store_raises("api_create_pool", [key |-> pool.name, body |-> pool])

\* PATCH /api/v1/pools/{pool_name}
api_update_pool(pool_name, pool) ==
    get_store_raises("api_update_pool", [key |-> pool_name, body |-> pool])

\* DELETE /api/v1/pools/{pool_name}
api_delete_pool(pool_name) ==
    get_store_raises("api_delete_pool", [key |-> pool_name])

\* PATCH /api/v1/pools/{pool_name}/slots: query holds the parameters the request
\* carries among occupied_slots, queued_slots and running_slots.
api_update_pool_slots(pool_name, query) ==
    get_store_raises("api_update_pool_slots", [key |-> pool_name, query |-> query])

\* GET /api/v1/providers
api_list_providers(limit, offset, order_by) ==
    get_store_raises("api_list_providers",
        [limit |-> limit, offset |-> offset, order_by |-> order_by])

\* POST /api/v1/providers
api_create_provider(provider) ==
    get_store_raises("api_create_provider", [key |-> provider.package_name, body |-> provider])

\* PATCH /api/v1/providers/{provider_name}
api_update_provider(provider_name, provider) ==
    get_store_raises("api_update_provider", [key |-> provider_name, body |-> provider])

\* DELETE /api/v1/providers/{provider_name}
api_delete_provider(provider_name) ==
    get_store_raises("api_delete_provider", [key |-> provider_name])

----------------------------------------------------------------------------
(* The registry of stores (store.py MockStore), the server (server.py       *)
(* MockServer) and the sample data (sample_data.py).  The nine store        *)
(* variables hold the InstanceStore that `cur` names; `instances` holds the *)
(* others, and a mark in the place of the one the variables hold.           *)

\* The content of the InstanceStore the nine variables hold.
Snapshot ==
    [dags |-> dags, dag_runs |-> dag_runs, task_instances |-> task_instances,
     task_logs |-> task_logs, variables |-> variables, connections |-> connections,
     xcoms |-> xcoms, pools |-> pools, providers |-> providers]

\* InstanceStore(instance_id): the content of a new store.
FreshStore ==
    [dags |-> EmptyDict, dag_runs |-> EmptyDict, task_instances |-> EmptyDict,
     task_logs |-> EmptyDict, variables |-> EmptyDict, connections |-> EmptyDict,
     xcoms |-> EmptyDict, pools |-> EmptyDict, providers |-> EmptyDict]

\* What `instances` keeps in the place of the store the variables hold.
Held == [held |-> TRUE]

\* The nine variables take the content s.
Load(s) ==
    /\ dags' = s.dags
    /\ dag_runs' = s.dag_runs
    /\ task_instances' = s.task_instances
    /\ task_logs' = s.task_logs
    /\ variables' = s.variables
    /\ connections' = s.connections
    /\ xcoms' = s.xcoms
    /\ pools' = s.pools
    /\ providers' = s.providers

\* The content of the store MockStore.instances holds under instance_id, or
\* NoneObj when it holds none.
StoreOf(instance_id) ==
    IF ~DictHas(instances, instance_id) THEN NoneObj
    ELSE IF instance_id = cur THEN Snapshot
    ELSE DictGet(instances, instance_id, NoneObj)

\* MockStore.get_instance that makes a new InstanceStore at every call.
GetInstanceAlwaysNew(instance_id) == FreshStore

\* MockStore.get_instance: the content of the store it returns, made at the
\* first call for the instance_id and kept from then on.
GetInstance(instance_id) ==
    IF DictHas(instances, instance_id) THEN StoreOf(instance_id) ELSE FreshStore

\* MockStore.instances and the store variables when the store of instance_id
\* takes the content s.
PutStore(instance_id, s) ==
    IF instance_id = cur
    THEN Load(s) /\ instances' = instances
    ELSE instances' = DictSet(instances, instance_id, s) /\ UNCHANGED storeVars

\* store.get_instance(instance_id)
Call_get_instance(instance_id) ==
    /\ PutStore(instance_id, GetInstance(instance_id))
    /\ Respond("get_instance", [instance_id |-> instance_id], Returned,
               GetInstance(instance_id))
    /\ UNCHANGED <<now, ops, servers, cur, app, pending>>

\* store.list_instances()
Call_list_instances ==
    /\ Respond("list_instances", NoneObj, Returned,
               [items |-> [i \in 1..Len(instances) |-> instances[i].k]])
    /\ UNCHANGED <<storeVars, now, ops, registryVars, pending>>

\* populate_instance(instance): the content it leaves in a store of content
\* instance.  The generators' counts are taken as one DAG, one run and one
\* task instance, one variable and one connection; choice holds what
\* random.choice returned.
populate_instance(instance, choice) ==
    LET running == choice.ti_state = "running"
        dag == DAG("d1", choice.is_paused)
        dag_run == DAGRun("d1", "r1", 0, 0,
                          IF choice.run_state = "running" THEN None ELSE 1,
                          choice.run_state)
        task_instance == TaskInstance("t1", "d1", "r1", choice.ti_state, choice.try_number,
                                      0, IF running THEN None ELSE 1,
                                      IF running THEN None ELSE 1)
        runs == DictGet(instance.dag_runs, "d1", EmptyDict)
        byRun == DictGet(instance.task_instances, "d1", EmptyDict)
        tasks == DictGet(byRun, "r1", EmptyDict)
    IN  [instance EXCEPT
            !.dags = DictSet(@, "d1", dag),
            !.dag_runs = DictSet(@, "d1", DictSet(runs, "r1", dag_run)),
            !.task_instances = DictSet(@, "d1",
                                  DictSet(byRun, "r1", DictSet(tasks, "t1", task_instance))),
            !.variables = DictSet(@, "env", Variable("env", "dev", "Environment name")),
            !.connections = DictSet(@, "http_default",
                                    Connection("http_default", "http", "api.example.com"))]

\* create_app with every application bound to the store of one instance.
BoundStoreShared(instance_id) == "a"

\* create_app(instance_id): the instance whose store the handlers of the
\* application close over, instance_store = store.get_instance(instance_id).
BoundStore(instance_id) == instance_id

\* MockServer.start_instance(instance_id, port, populate), up to the moment
\* the server serves.
start_instance(instance_id, populate, choice) ==
    LET made == GetInstance(instance_id)
    IN  /\ PutStore(instance_id, IF populate THEN populate_instance(made, choice) ELSE made)
        /\ servers' = DictSet(servers, instance_id,
                              [instance_store |-> BoundStore(instance_id)])
        /\ Respond("start_instance", [instance_id |-> instance_id, populate |-> populate],
                   Returned, NoneObj)
        /\ UNCHANGED <<now, ops, cur, app, pending>>

\* MockServer.stop_instance(instance_id): the server shuts down and leaves
\* MockServer.servers.
stop_instance(instance_id) ==
    /\ servers' = IF DictHas(servers, instance_id) THEN DictDel(servers, instance_id)
                  ELSE servers
    /\ app' = IF app = instance_id THEN NoneStr ELSE app
    /\ Respond("stop_instance", [instance_id |-> instance_id], Returned, NoneObj)
    /\ UNCHANGED <<storeVars, now, ops, instances, cur, pending>>

\* The next requests go to the running application of instance_id: the store
\* variables take the store its handlers close over.
Route(instance_id) ==
    LET bound == DictGet(servers, instance_id, NoneObj).instance_store
        kept == IF cur = NoneStr THEN instances ELSE DictSet(instances, cur, Snapshot)
    IN  /\ DictHas(servers, instance_id)
        /\ DictHas(instances, bound)
        /\ app # instance_id
        /\ app' = instance_id
        /\ cur' = bound
        /\ IF bound = cur
           THEN UNCHANGED <<storeVars, instances>>
           ELSE /\ Load(DictGet(instances, bound, NoneObj))
                /\ instances' = DictSet(kept, bound, Held)
        /\ UNCHANGED <<now, req, resp, ops, servers, pending>>

\* A request that the running application `app` serves.
Served(A) == app # NoneStr /\ A /\ UNCHANGED <<ops, registryVars, pending>>

----------------------------------------------------------------------------
(* Specifications. Init is a fresh InstanceStore; each specification runs   *)
(* the calls of one part of the program over small sets of inputs.          *)

\* The clients that have a request at the server at the same time.
Clients == {1, 2}

Init ==
    /\ InstanceStore
    /\ now = 0
    /\ req = [op |-> "init", args |-> NoneObj]
    /\ resp = [status |-> Returned, body |-> NoneObj]
    /\ ops = 0
    /\ instances = EmptyDict
    /\ servers = EmptyDict
    /\ cur = NoneStr
    /\ app = NoneStr
    /\ pending = [c \in Clients |-> NoneObj]

\* A call on one InstanceStore, in a specification that does not bound the
\* number of calls.
Free(A) == A /\ UNCHANGED <<ops, registryVars, pending>>

\* A call on one InstanceStore, in a specification that allows MaxOps calls.
Counted(A) == ops < MaxOps /\ A /\ ops' = ops + 1 /\ UNCHANGED <<registryVars, pending>>

DagIds == {"d1", "d2"}
TaskIds == {"t1", "t2"}
Times == 0..MaxTime

(* Task instances: set-state and clear.  One task instance (d1, r1, t1) is  *)
(* followed through every value the calls can give it; t2 is never stored.  *)

TIStates == {"none", "queued", "running", "success", "failed", "skipped"}

TIInputs ==
    {TaskInstance("t1", "d1", "r1", st, try, sd, ed, du) :
        st \in {"none", "running", "failed", "success"}, try \in {1, 2},
        sd \in {None, 0}, ed \in {None, 1}, du \in {None, 1}}

ClearRequests ==
    {ClearTaskInstance(dr, fo, ro) : dr \in BOOLEAN, fo \in BOOLEAN, ro \in BOOLEAN}

NextTI ==
    \/ \E ti \in TIInputs : Free(Call_add_task_instance(ti))
    \/ \E ti \in (TIInputs \cup {get_task_instance("d1", "r1", "t1")}) \ {NoneObj} :
            Free(Call_clear_task_instance(ti))
    \/ \E t \in TaskIds, st \in TIStates :
            Free(api_set_task_instance_state("d1", "r1", t, st))
    \/ \E t \in TaskIds, cr \in ClearRequests :
            Free(api_clear_task_instance("d1", "r1", t, cr))

SpecTI == Init /\ [][NextTI]_vars

\* The task instance that the value tis of task_instances holds under the
\* dag_id, run_id and task_id of key (a task instance or a request), or NoneObj.
TIAt(tis, key) ==
    DictGet(DictGet(DictGet(tis, key.dag_id, EmptyDict), key.run_id, EmptyDict),
            key.task_id, NoneObj)

\* The task instance a set-state or clear request addresses, or NoneObj.
Addressed(args) == TIAt(task_instances, args)

IsReset(ti) ==
    /\ ti.state = "none"
    /\ ti.try_number = 1
    /\ ti.start_date = None
    /\ ti.end_date = None
    /\ ti.duration = None

\* The filters of a clear request hold of the task instance.
FiltersSatisfied(clear_request, ti) ==
    /\ clear_request.only_failed => ti.state = "failed"
    /\ clear_request.only_running => ti.state = "running"

\* C8: a clear (InstanceStore.clear_task_instance called directly, or a clear
\* request that is no dry run and whose filters the task instance satisfies)
\* leaves the stored task instance with state "none", try_number 1 and no
\* start_date, end_date or duration, whatever these were before.
C8_ClearAlwaysResets ==
    [][ /\ req'.op = "clear_task_instance" =>
               /\ TIAt(task_instances', req'.args.task_instance) # NoneObj
               /\ IsReset(TIAt(task_instances', req'.args.task_instance))
        /\ ( /\ req'.op = "api_clear_task_instance"
             /\ TIAt(task_instances, req'.args) # NoneObj
             /\ ~req'.args.clear_request.dry_run
             /\ FiltersSatisfied(req'.args.clear_request, TIAt(task_instances, req'.args)) ) =>
               /\ resp'.status = OK
               /\ TIAt(task_instances', req'.args) # NoneObj
               /\ IsReset(TIAt(task_instances', req'.args))
      ]_vars

\* A clear request has cleared a task instance that was failed and is now reset.
C8_Witness ==
    /\ req.op = "api_clear_task_instance"
    /\ resp.status = OK
    /\ resp.body.message = "Task instance cleared"
    /\ req.args.clear_request.only_failed
    /\ Addressed(req.args) # NoneObj
    /\ IsReset(Addressed(req.args))

\* C9: a clear request on a stored task instance clears only when it is no dry
\* run and every requested filter is satisfied; otherwise the task instance is
\* left as it was and the request is answered 200 with the unchanged state.
C9_ClearOnlyWhenAllowed ==
    [][ ( /\ req'.op = "api_clear_task_instance"
          /\ TIAt(task_instances, req'.args) # NoneObj ) =>
            LET before == TIAt(task_instances, req'.args)
                allowed == /\ ~req'.args.clear_request.dry_run
                           /\ FiltersSatisfied(req'.args.clear_request, before)
            IN  /\ resp'.status = OK
                /\ ~allowed => /\ task_instances' = task_instances
                               /\ resp'.body.state = before.state
                               /\ resp'.body.message = "Task instance not cleared"
                /\ allowed => /\ IsReset(TIAt(task_instances', req'.args))
                              /\ resp'.body.message = "Task instance cleared"
      ]_vars

\* A dry run on a failed task instance was answered 200 and the task instance
\* is still failed.
C9_Witness ==
    /\ req.op = "api_clear_task_instance"
    /\ req.args.clear_request.dry_run
    /\ resp.status = OK
    /\ resp.body.message = "Task instance not cleared"
    /\ resp.body.state = "failed"
    /\ Addressed(req.args) # NoneObj
    /\ Addressed(req.args).state = "failed"
    /\ Addressed(req.args).try_number = 2

\* C10: setting a stored task instance's state to "running" makes its state
\* running, its start_date the time of the request and its end_date None,
\* whatever its state and dates were before.
C10_RunningSetsStartClearsEnd ==
    [][ ( /\ req'.op = "api_set_task_instance_state"
          /\ req'.args.state = "running"
          /\ TIAt(task_instances, req'.args) # NoneObj ) =>
            LET after == TIAt(task_instances', req'.args)
            IN  /\ resp'.status = OK
                /\ after.state = "running"
                /\ after.start_date = now'
                /\ now' >= now
                /\ after.end_date = None
      ]_vars

\* A task instance that had an end_date (it was set to success at a later
\* time than its start) has been set to running.
C10_Witness ==
    /\ req.op = "api_set_task_instance_state"
    /\ req.args.state = "running"
    /\ resp.status = OK
    /\ Addressed(req.args) # NoneObj
    /\ Addressed(req.args).state = "running"
    /\ Addressed(req.args).start_date = MaxTime
    /\ Addressed(req.args).end_date = None
    /\ Addressed(req.args).duration # None

\* C11: setting a stored task instance's state to success, failed or skipped
\* keeps a start_date it has and gives it the time of the request if it has
\* none, sets end_date to the time of the request and duration to end_date
\* minus start_date; the three are then all set, also when the task instance
\* was terminal before.
C11_TerminalSetsEndAndDuration ==
    [][ ( /\ req'.op = "api_set_task_instance_state"
          /\ req'.args.state \in {"success", "failed", "skipped"}
          /\ TIAt(task_instances, req'.args) # NoneObj ) =>
            LET before == TIAt(task_instances, req'.args)
                after == TIAt(task_instances', req'.args)
            IN  /\ resp'.status = OK
                /\ after.state = req'.args.state
                /\ IF before.start_date # None
                   THEN after.start_date = before.start_date
                   ELSE after.start_date \in now..now'
                /\ after.end_date = now'
                /\ after.duration = after.end_date - after.start_date
                /\ after.start_date # None /\ after.end_date # None /\ after.duration # None
      ]_vars

\* A task instance that started at 0 has been set to a terminal state at
\* MaxTime, later than the end the instance had when it was stored.
C11_Witness ==
    /\ req.op = "api_set_task_instance_state"
    /\ req.args.state = "failed"
    /\ resp.status = OK
    /\ Addressed(req.args) # NoneObj
    /\ Addressed(req.args).start_date = 0
    /\ Addressed(req.args).end_date = MaxTime
    /\ Addressed(req.args).duration = MaxTime

(* A task instance that is stored with no dates and no duration, and the    *)
(* set-state and clear requests on it.                                      *)

NextFresh ==
    \/ Free(Call_add_task_instance(TaskInstance("t1", "d1", "r1", "none", 1, None, None, None)))
    \/ \E t \in TaskIds, st \in TIStates :
            Free(api_set_task_instance_state("d1", "r1", t, st))
    \/ \E t \in TaskIds, cr \in ClearRequests :
            Free(api_clear_task_instance("d1", "r1", t, cr))

SpecFresh == Init /\ [][NextFresh]_vars

\* C12: a task instance that started with no dates and no duration has a
\* duration only while it has both a start_date and an end_date, after any
\* sequence of set-state and clear requests; after a clear it has none.
C12_DurationOnlyWithBothDates ==
    LET ti == get_task_instance("d1", "r1", "t1")
    IN  ti # NoneObj =>
            /\ ti.duration # None => ti.start_date # None /\ ti.end_date # None
            /\ ( /\ req.op = "api_clear_task_instance"
                 /\ req.args.task_id = "t1"
                 /\ resp.status = OK
                 /\ resp.body.message = "Task instance cleared" ) => ti.duration = None

----------------------------------------------------------------------------
(* Pools: creation, slot updates and the pool requests.  One pool name, p1, *)
(* is stored with every combination of counts; p2 is never stored.          *)

PoolNames == {"p1", "p2"}
SlotCounts == 0..MaxSlots

\* Pool(**data) for the data a caller can supply, open_slots included.
PoolInputs ==
    {Pool("p1", slots, NoneStr, occ, 0, 0, open) :
        slots \in 1..MaxSlots, occ \in SlotCounts, open \in {None, 0}}

\* The counts a slot update supplies: every count for the occupied slots, the
\* least and the greatest for the queued and the running slots.
CountsOf(name) ==
    IF name \in {"occupied", "occupied_slots"} THEN SlotCounts ELSE {0, MaxSlots}

\* The keyword arguments of a slot update: any of the three, each with a count.
SlotKwargs(names) ==
    UNION {{kwargs \in [S -> SlotCounts] : \A n \in S : kwargs[n] \in CountsOf(n)} :
            S \in SUBSET names}

NextPool ==
    \/ \E pool \in PoolInputs : Free(Call_add_pool(pool))
    \/ \E name \in PoolNames, kwargs \in SlotKwargs({"occupied", "queued", "running"}) :
            Free(Call_update_pool_slots(name, kwargs))
    \/ \E name \in PoolNames : Free(Call_delete_pool(name))
    \/ \E pool \in PoolInputs : Free(api_create_pool(pool))
    \/ \E name \in PoolNames, pool \in PoolInputs : Free(api_update_pool(name, pool))
    \/ \E name \in PoolNames : Free(api_delete_pool(name))
    \/ \E name \in PoolNames,
          query \in SlotKwargs({"occupied_slots", "queued_slots", "running_slots"}) :
            Free(api_update_pool_slots(name, query))

SpecPool == Init /\ [][NextPool]_vars

\* C4: in every reachable state every stored Pool has
\* open_slots = slots - occupied_slots, whatever open_slots its creator supplied
\* and whatever slot updates it went through.
C4_OpenSlotsDerived ==
    \A i \in 1..Len(pools) :
        pools[i].v.open_slots = pools[i].v.slots - pools[i].v.occupied_slots

\* A slot update has left a stored pool with occupied slots and fewer open
\* slots than slots.
C4_Witness ==
    /\ req.op = "update_pool_slots"
    /\ get_pool("p1") # NoneObj
    /\ get_pool("p1").slots = 2
    /\ get_pool("p1").occupied_slots = 1
    /\ get_pool("p1").open_slots = 1

\* The value of a pool's count after a slot update that supplies the counts of
\* given (a function from some of the count names) and omits the others.
Kept(given, name, before) == IF name \in DOMAIN given THEN given[name] ELSE before

\* C5: a slot update of a stored pool, made through
\* InstanceStore.update_pool_slots or through the PATCH slots request, gives
\* each supplied count its new value and leaves each omitted count as it was.
C5_OmittedCountsAreKept ==
    [][ /\ ( /\ req'.op = "update_pool_slots"
             /\ DictHas(pools, req'.args.name) ) =>
               LET before == DictGet(pools, req'.args.name, NoneObj)
                   after == DictGet(pools', req'.args.name, NoneObj)
                   given == req'.args.kwargs
               IN  /\ after.occupied_slots = Kept(given, "occupied", before.occupied_slots)
                   /\ after.queued_slots = Kept(given, "queued", before.queued_slots)
                   /\ after.running_slots = Kept(given, "running", before.running_slots)
        /\ ( /\ req'.op = "api_update_pool_slots"
             /\ DictHas(pools, req'.args.key) ) =>
               LET before == DictGet(pools, req'.args.key, NoneObj)
                   after == DictGet(pools', req'.args.key, NoneObj)
                   given == req'.args.query
               IN  /\ resp'.status = OK
                   /\ after.occupied_slots = Kept(given, "occupied_slots", before.occupied_slots)
                   /\ after.queued_slots = Kept(given, "queued_slots", before.queued_slots)
                   /\ after.running_slots = Kept(given, "running_slots", before.running_slots)
      ]_vars

----------------------------------------------------------------------------
(* XCom entries of one task (d1, t1): key k1 under every run and timestamp, *)
(* key k2 under one run, and entries without a run_id.                      *)

XComKeys == {"k1", "k2"}
XComRunIds == {"r1", "r2", "r3"}
\* A run_id argument: a run, or none (None or the empty string).
OptRunIds == XComRunIds \cup {NoneStr, ""}

XComInputs ==
    {XCom("k1", "a", ts, "t1", "d1", r) : ts \in Times, r \in XComRunIds \cup {NoneStr}}
        \cup {XCom("k2", "a", MaxTime, "t1", "d1", "r1")}

\* The bodies of the create requests.
XComBodies == {XCom("k1", "a", 0, "t1", "d1", NoneStr)}

NextXCom ==
    \/ \E xcom \in XComInputs : Free(Call_add_xcom_value(xcom))
    \/ \E key \in XComKeys, r \in OptRunIds : Free(Call_get_xcom_value("d1", "t1", key, r))
    \/ \E key \in XComKeys, r \in OptRunIds : Free(Call_delete_xcom_value("d1", "t1", key, r))
    \/ \E xcom \in XComBodies, r \in XComRunIds : Free(api_create_xcom_entry("d1", r, "t1", xcom))
    \/ \E key \in XComKeys, r \in XComRunIds : Free(api_get_xcom_entry("d1", r, "t1", key))
    \/ \E key \in XComKeys, r \in XComRunIds : Free(api_delete_xcom_entry("d1", r, "t1", key))
    \/ \E d \in DagIds :
            Free(Call_lookup("list_xcom_values", <<d, "t1", "r1", NoneStr>>,
                             list_xcom_values(d, "t1", "r1", NoneStr)))

SpecXCom == Init /\ [][NextXCom]_vars

\* The values of a dict, as a set.
Vals(d) == {d[i].v : i \in 1..Len(d)}

\* Every XCom entry the store holds, whatever its place in the index.
StoredXComs ==
    UNION {Vals(byRun) :
        byRun \in UNION {Vals(byKey) :
            byKey \in UNION {Vals(byTask) : byTask \in Vals(xcoms)}}}

\* The stored entries sharing (dag_id, task_id, key).
Sharing(dag_id, task_id, key) ==
    {x \in StoredXComs : x.dag_id = dag_id /\ x.task_id = task_id /\ x.key = key}

\* C6: get_xcom_value without a run_id returns one of the stored entries
\* sharing (dag_id, task_id, key) whose timestamp is the greatest among them,
\* and returns None exactly when no entry is stored under (dag_id, task_id, key).
C6_LatestHasMaxTimestamp ==
    (req.op = "get_xcom_value" /\ ~Truthy(req.args.run_id)) =>
        LET among == Sharing(req.args.dag_id, req.args.task_id, req.args.key)
        IN  IF among = {}
            THEN resp.body = NoneObj
            ELSE /\ resp.body \in among
                 /\ \A x \in among : x.timestamp <= resp.body.timestamp

\* A lookup without run_id has returned the newest of three entries, which was
\* inserted neither first nor last.
C6_Witness ==
    /\ req.op = "get_xcom_value"
    /\ req.args.run_id = NoneStr
    /\ Len(XComRuns("d1", "t1", "k1")) = 3
    /\ resp.body = XComRuns("d1", "t1", "k1")[2].v
    /\ XComRuns("d1", "t1", "k1")[1].v.timestamp < resp.body.timestamp
    /\ XComRuns("d1", "t1", "k1")[3].v.timestamp < resp.body.timestamp

\* The dicts that hold the entries of d in another insertion order.
Reordered(d) ==
    {[i \in 1..Len(d) |-> d[p[i]]] :
        p \in {q \in [1..Len(d) -> 1..Len(d)] : \A i, j \in 1..Len(d) : q[i] = q[j] => i = j}}

\* C7: the entry a lookup without run_id returns depends only on the set of
\* entries stored under (dag_id, task_id, key), not on the order they were
\* inserted in: a store holding the same entries in any other insertion order
\* returns the same entry.
C7_LatestIndependentOfInsertionOrder ==
    \A key \in XComKeys :
        \A other \in Reordered(XComRuns("d1", "t1", key)) :
            LatestOf(other) = LatestOf(XComRuns("d1", "t1", key))

----------------------------------------------------------------------------
(* The uniqueness rule of connections, variables, pools and providers: the  *)
(* list, create, update and delete requests, on stores that direct calls    *)
(* filled.  The stored entities carry the payload "a", the request bodies   *)
(* "b".                                                                     *)

ConnIds == {"c1", "c2"}
VarKeys == {"k1", "k2"}
PackageNames == {"pk1", "pk2"}

NextKeyed ==
    \/ \E id \in ConnIds : Free(Call_add_connection(Connection(id, "a", NoneStr)))
    \/ \E key \in VarKeys : Free(Call_add_variable(Variable(key, "a", NoneStr)))
    \/ \E name \in PoolNames : Free(Call_add_pool(Pool(name, 1, NoneStr, 0, 0, 0, None)))
    \/ \E name \in PackageNames : Free(Call_add_provider(Provider(name, "a", << >>)))
    \/ \E id \in ConnIds : Free(Call_delete_connection(id))
    \/ \E key \in VarKeys : Free(Call_delete_variable(key))
    \/ \E name \in PoolNames : Free(Call_delete_pool(name))
    \/ \E name \in PackageNames : Free(Call_delete_provider(name))
    \/ \E id \in ConnIds : Free(api_create_connection(Connection(id, "b", NoneStr)))
    \/ \E id, id2 \in ConnIds : Free(api_update_connection(id, Connection(id2, "b", NoneStr)))
    \/ \E id \in ConnIds : Free(api_delete_connection(id))
    \/ \E key \in VarKeys : Free(api_create_variable(Variable(key, "b", NoneStr)))
    \/ \E key, key2 \in VarKeys : Free(api_update_variable(key, Variable(key2, "b", NoneStr)))
    \/ \E key \in VarKeys : Free(api_delete_variable(key))
    \/ \E name \in PoolNames : Free(api_create_pool(Pool(name, 2, NoneStr, 0, 0, 0, None)))
    \/ \E name, name2 \in PoolNames :
            Free(api_update_pool(name, Pool(name2, 2, NoneStr, 0, 0, 0, None)))
    \/ \E name \in PoolNames : Free(api_delete_pool(name))
    \/ \E name \in PackageNames : Free(api_create_provider(Provider(name, "b", << >>)))
    \/ \E name, name2 \in PackageNames :
            Free(api_update_provider(name, Provider(name2, "b", << >>)))
    \/ \E name \in PackageNames : Free(api_delete_provider(name))
    \/ \E offset \in 0..1 : Free(api_list_connections(1, offset, "default"))
    \/ \E offset \in 0..1 : Free(api_list_variables(1, offset, NoneStr))
    \/ \E offset \in 0..1 : Free(api_list_pools(1, offset, NoneStr))
    \/ \E offset \in 0..1 : Free(api_list_providers(1, offset, NoneStr))
    \/ \E order_by \in {"-name", "description", "value", "-"} :
            Free(Call_list_pools(None, None, order_by))
    \/ \E order_by \in {"key", "-description", "slots"} :
            Free(Call_list_variables(None, None, order_by))
    \/ \E order_by \in {"-package_name", "description"} :
            Free(Call_list_providers(None, None, order_by))

SpecKeyed == Init /\ [][NextKeyed]_vars

\* The uniqueness rule for one kind of entity, whose collection is `before`
\* when the request arrives and `after` when it is answered.
UniquenessRule(createOp, updateOp, keyField, before, after) ==
    /\ req'.op = createOp =>
            IF DictHas(before, req'.args.key)
            THEN resp'.status = Conflict /\ after = before
            ELSE /\ resp'.status = OK
                 /\ DictGet(after, req'.args.key, NoneObj) = req'.args.body
    /\ req'.op = updateOp =>
            IF ~DictHas(before, req'.args.key)
            THEN resp'.status = NotFound /\ after = before
            ELSE /\ resp'.status = OK
                 /\ DictGet(after, req'.args.key, NoneObj) =
                        [req'.args.body EXCEPT ![keyField] = req'.args.key]

\* C2: for connections, variables, pools and providers, a create request whose
\* key is stored is answered 409 and replaces nothing, a create request whose
\* key is not stored succeeds and stores the entity, an update request whose
\* path key is not stored is answered 404 and stores nothing, and an update
\* request whose path key is stored succeeds and replaces the entity.
C2_UniquenessRule ==
    [][ /\ UniquenessRule("api_create_connection", "api_update_connection", "conn_id",
                          connections, connections')
        /\ UniquenessRule("api_create_variable", "api_update_variable", "key",
                          variables, variables')
        /\ UniquenessRule("api_create_pool", "api_update_pool", "name", pools, pools')
        /\ UniquenessRule("api_create_provider", "api_update_provider", "package_name",
                          providers, providers')
      ]_vars

----------------------------------------------------------------------------
(* Upsert on every keyed collection: the add methods called directly, two   *)
(* payloads per key, in behaviours of at most MaxOps calls.                 *)

\* Run keys: two runs of one dag, and a run of another dag.
RunKeys == {<<"d1", "r1">>, <<"d1", "r2">>, <<"d2", "r1">>}
\* Task instance keys that differ in the task, the run or the dag.
TIKeys == {<<"d1", "r1", "t1">>, <<"d1", "r1", "t2">>, <<"d1", "r2", "t1">>}
\* Log keys that differ in the try number, the task or the dag.
LogKeys == {<<"d1", "r1", "t1", 1>>, <<"d1", "r1", "t1", 2>>, <<"d2", "r1", "t1", 1>>}
Payloads == {"a", "b"}

NextUpsert ==
    \/ \E id \in DagIds, paused \in BOOLEAN : Counted(Call_add_dag(DAG(id, paused)))
    \/ \E key \in RunKeys, st \in {"running", "success"} :
            Counted(Call_add_dag_run(DAGRun(key[1], key[2], 0, None, None, st)))
    \/ \E key \in TIKeys, st \in {"none", "success"} :
            Counted(Call_add_task_instance(
                TaskInstance(key[3], key[1], key[2], st, 1, None, None, None)))
    \/ \E key \in LogKeys, content \in Payloads :
            Counted(Call_add_task_log(key[1], key[2], key[3], key[4],
                                      TaskLog(key[4], content, 0)))
    \/ \E key \in VarKeys, value \in Payloads :
            Counted(Call_add_variable(Variable(key, value, NoneStr)))
    \/ \E id \in ConnIds, type \in Payloads :
            Counted(Call_add_connection(Connection(id, type, NoneStr)))
    \/ \E name \in PoolNames, slots \in 1..MaxSlots :
            Counted(Call_add_pool(Pool(name, slots, NoneStr, 0, 0, 0, None)))
    \/ \E name \in PackageNames, version \in Payloads :
            Counted(Call_add_provider(Provider(name, version, << >>)))

SpecUpsert == Init /\ [][NextUpsert]_vars

\* The number of entities a dict nested depth levels deep holds.
RECURSIVE Leaves(_, _)
Leaves(d, depth) ==
    IF depth = 1 THEN Len(d)
    ELSE IF d = << >> THEN 0
    ELSE Leaves(Head(d).v, depth - 1) + Leaves(Tail(d), depth)

\* After an add, a get by the natural key of the entity added returns it.
Retrieved ==
    /\ req.op = "add_dag" => get_dag(req.args.dag.dag_id) = req.args.dag
    /\ req.op = "add_dag_run" =>
            get_dag_run(req.args.dag_run.dag_id, req.args.dag_run.run_id) = req.args.dag_run
    /\ req.op = "add_task_instance" =>
            get_task_instance(req.args.task_instance.dag_id, req.args.task_instance.run_id,
                              req.args.task_instance.task_id) = req.args.task_instance
    /\ req.op = "add_task_log" =>
            get_task_log(req.args.dag_id, req.args.run_id, req.args.task_id,
                         req.args.try_number) = req.args.log
    /\ req.op = "add_variable" => get_variable(req.args.variable.key) = req.args.variable
    /\ req.op = "add_connection" =>
            get_connection(req.args.connection.conn_id) = req.args.connection
    /\ req.op = "add_pool" => get_pool(req.args.pool.name) = req.args.pool
    /\ req.op = "add_provider" =>
            get_provider(req.args.provider.package_name) = req.args.provider

\* An add to a collection, nested depth levels deep, that is `before` at the
\* call and `after` at the return, where a get by the key found `found` at the
\* call: the collection holds one entity more if the key was new and as many as
\* before if it was stored.
Counts(before, after, depth, found) ==
    Leaves(after, depth) = Leaves(before, depth) + (IF found = NoneObj THEN 1 ELSE 0)

\* C1: add is create-or-replace on DAGs, runs, task instances, logs, variables,
\* connections, pools and providers: after add(e) a get by e's natural key
\* returns e, and an add under a key that is already stored replaces the entity
\* without changing the number of entries.
C1_UpsertCreatesOrReplaces ==
    [][ /\ Retrieved'
        /\ req'.op = "add_dag" =>
            Counts(dags, dags', 1, get_dag(req'.args.dag.dag_id))
        /\ req'.op = "add_dag_run" =>
            Counts(dag_runs, dag_runs', 2,
                   get_dag_run(req'.args.dag_run.dag_id, req'.args.dag_run.run_id))
        /\ req'.op = "add_task_instance" =>
            Counts(task_instances, task_instances', 3,
                   get_task_instance(req'.args.task_instance.dag_id,
                                     req'.args.task_instance.run_id,
                                     req'.args.task_instance.task_id))
        /\ req'.op = "add_task_log" =>
            Counts(task_logs, task_logs', 4,
                   get_task_log(req'.args.dag_id, req'.args.run_id, req'.args.task_id,
                                req'.args.try_number))
        /\ req'.op = "add_variable" =>
            Counts(variables, variables', 1, get_variable(req'.args.variable.key))
        /\ req'.op = "add_connection" =>
            Counts(connections, connections', 1,
                   get_connection(req'.args.connection.conn_id))
        /\ req'.op = "add_pool" =>
            Counts(pools, pools', 1, get_pool(req'.args.pool.name))
        /\ req'.op = "add_provider" =>
            Counts(providers, providers', 1, get_provider(req'.args.provider.package_name))
      ]_vars

\* Two adds were made, both of a log under the same (dag, run, task,
\* try_number): one log is stored, and it is the second.
C1_Witness ==
    /\ ops = 2
    /\ req.op = "add_task_log"
    /\ Leaves(task_logs, 4) = 1
    /\ Retrieved
    /\ dags = << >> /\ dag_runs = << >> /\ task_instances = << >>
    /\ variables = << >> /\ connections = << >> /\ pools = << >> /\ providers = << >>

----------------------------------------------------------------------------
(* Listing: up to three DAGs, runs, task instances and pools and up to two  *)
(* variables, connections and providers, added by direct calls in any       *)
(* order, and the list methods and list requests on them, in behaviours of  *)
(* at most MaxOps calls.                                                    *)

\* limit >= 1 and offset >= 0, as the requests validate them
Limits == 1..MaxPage
Offsets == 0..MaxPage
\* the offsets the list calls of the behaviours use: inside and past the end
CallOffsets == {1, MaxPage}

\* execution_date_gte, execution_date_lte and state of a list request for runs
RunFilters == {<<None, None, NoneStr>>, <<1, None, "success">>, <<None, 0, "">>,
               <<0, 1, "running">>}

\* The fixtures the listing behaviours add: one payload per key, with two
\* pools of equal slots, two runs of equal date and state and two task
\* instances of equal state, so that sorting meets ties and filters keep more
\* than one entity.
ListPool(name) == Pool(name, IF name = "p3" THEN MaxSlots ELSE 1, NoneStr, 0, 0, 0, None)
ListRun(run_id) ==
    IF run_id = "r1" THEN DAGRun("d1", run_id, 0, None, None, "running")
                     ELSE DAGRun("d1", run_id, 1, None, None, "success")
ListTaskInstance(task_id) ==
    TaskInstance(task_id, "d1", "r1", IF task_id = "t1" THEN "none" ELSE "success",
                 1, None, None, None)

NextList ==
    \/ \E id \in {"d1", "d2", "d3"} : Counted(Call_add_dag(DAG(id, FALSE)))
    \/ \E r \in {"r1", "r2", "r3"} : Counted(Call_add_dag_run(ListRun(r)))
    \/ \E t \in {"t1", "t2", "t3"} : Counted(Call_add_task_instance(ListTaskInstance(t)))
    \/ \E name \in {"p1", "p2", "p3"} : Counted(Call_add_pool(ListPool(name)))
    \/ \E key \in VarKeys : Counted(Call_add_variable(Variable(key, "a", NoneStr)))
    \/ \E id \in ConnIds : Counted(Call_add_connection(Connection(id, "a", NoneStr)))
    \/ \E name \in PackageNames :
            Counted(Call_add_provider(Provider(name, "a", << >>)))
    \/ \E offset \in CallOffsets : Counted(Call_list_pools(1, offset, "-name"))
    \/ \E offset \in CallOffsets : Counted(Call_list_variables(1, offset, NoneStr))
    \/ \E offset \in CallOffsets : Counted(Call_list_connections(1, offset))
    \/ \E offset \in CallOffsets : Counted(Call_list_providers(1, offset, "package_name"))
    \/ \E offset \in CallOffsets : Counted(api_list_dags(1, offset))
    \/ \E offset \in CallOffsets :
            Counted(api_list_dag_runs("d1", 1, offset, None, None, "success"))
    \/ \E offset \in CallOffsets :
            Counted(api_list_task_instances("d1", "r1", 1, offset, NoneStr))

SpecList == Init /\ [][NextList]_vars

\* The positions [offset, offset + limit) of full, counted from 0: empty when
\* offset is at or past the end.  An omitted (None) offset is 0, an omitted
\* limit is no limit.
Positions(full, limit, offset) ==
    LET from == IF offset = None THEN 0 ELSE offset
        upto == IF limit = None THEN Len(full) ELSE Min(from + limit, Len(full))
    IN  [i \in 1..(upto - from) |-> full[from + i]]

\* The runs of all that pass every filter a list request carries.
RunsPassing(all, gte, lte, state) ==
    SelectSeq(all, LAMBDA dr :
        /\ gte # None => dr.execution_date >= gte
        /\ lte # None => dr.execution_date <= lte
        /\ state \notin {NoneStr, ""} => dr.state = state)

\* The task instances of all in the state a list request asks for.
TaskInstancesPassing(all, state) ==
    SelectSeq(all, LAMBDA ti : state \notin {NoneStr, ""} => ti.state = state)

\* C3: for every limit and offset, each list method of the store (pools,
\* variables, connections, providers) and each list request (DAGs, DAG runs,
\* task instances) returns the positions [offset, offset + limit) of the
\* filtered and ordered full sequence, and the empty page, not an error, when
\* the offset is at or past its end.
C3_PageIsSliceOfFullSequence ==
    /\ \A limit \in Limits \cup {None}, offset \in Offsets \cup {None} :
        /\ \A order_by \in {NoneStr, "", "-name", "slots"} :
            list_pools(limit, offset, order_by) =
                Positions(OrderBy(DictValues(pools), order_by), limit, offset)
        /\ \A order_by \in {NoneStr, "-key"} :
            list_variables(limit, offset, order_by) =
                Positions(OrderBy(DictValues(variables), order_by), limit, offset)
        /\ list_connections(limit, offset) =
                Positions(DictValues(connections), limit, offset)
        /\ \A order_by \in {NoneStr, "package_name"} :
            list_providers(limit, offset, order_by) =
                Positions(OrderBy(DictValues(providers), order_by), limit, offset)
    /\ \A limit \in Limits, offset \in Offsets :
        /\ list_dags_response(limit, offset).items =
                Positions(DictValues(dags), limit, offset)
        /\ \A dag_id \in {"d1", "d2"}, f \in RunFilters :
            list_dag_runs_response(dag_id, limit, offset, f[1], f[2], f[3]).items =
                Positions(RunsPassing(DictValues(DictGet(dag_runs, dag_id, EmptyDict)),
                                      f[1], f[2], f[3]),
                          limit, offset)
        /\ \A state \in {NoneStr, "", "success"} :
            list_task_instances_response("d1", "r1", limit, offset, state).items =
                Positions(TaskInstancesPassing(get_task_instances("d1", "r1"), state),
                          limit, offset)
        /\ list_task_instances_response("d1", "r2", limit, offset, NoneStr).items = << >>
    /\ req.op \in {"list_pools", "list_variables", "list_connections", "list_providers"} =>
            /\ resp.status = Returned
            /\ req.args.offset >= Len(resp.body.items) + req.args.offset
                    => resp.body.items = << >>
    /\ req.op = "api_list_dags" =>
            resp = [status |-> OK,
                    body |-> list_dags_response(req.args.limit, req.args.offset)]
    /\ req.op = "api_list_dag_runs" =>
            resp = [status |-> OK,
                    body |-> list_dag_runs_response(req.args.dag_id, req.args.limit,
                                req.args.offset, req.args.execution_date_gte,
                                req.args.execution_date_lte, req.args.state)]
    /\ req.op = "api_list_task_instances" =>
            resp = [status |-> OK,
                    body |-> list_task_instances_response(req.args.dag_id,
                                req.args.run_id, req.args.limit, req.args.offset,
                                req.args.state)]

\* list_pools(limit=1, offset=1, order_by="-name") has returned the second of
\* two pools in descending name order, which is the pool added first.
C3_Witness ==
    /\ req.op = "list_pools"
    /\ req.args.offset = 1
    /\ Len(pools) = 2
    /\ pools[1].v.name = "p1"
    /\ pools[2].v.name = "p3"
    /\ resp.body.items = <<pools[1].v>>
    /\ list_pools(1, 2, "-name") = << >>

----------------------------------------------------------------------------
(* SpecRuns: the run requests and the other create and update requests one  *)
(* running application serves.  The server starts instance "a" once, with   *)
(* or without the sample data.                                              *)

\* What random.choice returns in populate_instance.
SampleChoices ==
    [is_paused : {FALSE}, run_state : {"success", "running"},
     ti_state : {"success", "running"}, try_number : {1}]

\* The bodies of the run requests, all naming DAG "d2": run_id,
\* execution_date and start_date left out; run_id empty and the dates left
\* out; all three given.
RunBodies ==
    {DAGRun("d2", NoneStr, None, None, None, "queued"),
     DAGRun("d2", "", None, None, None, "queued"),
     DAGRun("d2", "r2", 0, 0, None, "queued")}

NextRuns ==
    \/ /\ servers = EmptyDict
       /\ \E populate \in BOOLEAN : \E choice \in SampleChoices :
              start_instance("a", populate, choice)
    \/ Route("a")
    \/ \E d \in DagIds : \E body \in RunBodies : Served(api_create_dag_run(d, body))
    \/ \E d \in DagIds : \E body \in RunBodies :
           Served(api_update_dag_run(d, "r1", body))
    \/ \E d \in DagIds : Served(api_list_dag_runs(d, 1, 0, None, None, NoneStr))
    \/ \E t \in TaskIds :
           Served(api_create_xcom_entry("d1", "r1", t, XCom("k1", 1, 0, "t2", "d2", "r2")))
    \/ Served(api_update_connection("http_default", Connection("c2", "http", "h1")))
    \/ Served(api_update_variable("env", Variable("k2", "v1", NoneStr)))
    \/ Served(api_update_pool("p1", Pool("p2", 1, NoneStr, 0, 0, 0, 1)))
    \/ Served(api_update_provider("pk1", Provider("pk2", "1.0", <<>>)))

SpecRuns == Init /\ [][NextRuns]_vars

\* The run the dict of runs d holds under (dag_id, run_id), or NoneObj.
RunAt(d, dag_id, run_id) == DictGet(DictGet(d, dag_id, EmptyDict), run_id, NoneObj)

\* C13: a create-run request under an existing DAG whose body carries no
\* run_id (left out, or empty) is accepted, and the run it returns is stored
\* under a run_id "manual__<UTC time of the request>"; when the body leaves
\* out execution_date or start_date, the stored run has the UTC time of the
\* request there.
C13_MissingRunIdIsGenerated ==
    [][ ( /\ req'.op = "api_create_dag_run"
          /\ DictHas(dags, req'.args.dag_id)
          /\ req'.args.dag_run.dag_id # NoneStr ) =>
            LET body == req'.args.dag_run
                stored == RunAt(dag_runs', req'.args.dag_id, resp'.body.run_id)
            IN  /\ ~Truthy(body.run_id) =>
                      /\ resp'.status = OK
                      /\ \E t \in now..now' : resp'.body.run_id = ManualRunId(t)
                      /\ stored = resp'.body
                /\ (resp'.status = OK /\ body.execution_date = None) =>
                      stored.execution_date \in now..now'
                /\ (resp'.status = OK /\ body.start_date = None) =>
                      stored.start_date \in now..now'
      ]_vars

----------------------------------------------------------------------------
(* SpecRequests: the requests of every kind one running application serves, *)
(* the run requests carrying their run_id and dates.  The server starts     *)
(* instance "a" once, with or without the sample data, and from then on the *)
(* store changes through the request handlers only.                         *)

NextRequests ==
    \/ /\ servers = EmptyDict
       /\ \E populate \in BOOLEAN : \E choice \in SampleChoices :
              start_instance("a", populate, choice)
    \/ Route("a")
    \/ \E d \in DagIds :
           Served(api_create_dag_run(d, DAGRun("d2", "r2", 0, 0, None, "queued")))
    \/ \E d \in DagIds :
           Served(api_update_dag_run(d, "r1", DAGRun("d2", "r2", 0, 0, None, "failed")))
    \/ \E d \in DagIds : Served(api_set_task_instance_state(d, "r1", "t1", "success"))
    \/ \E d \in DagIds :
           Served(api_clear_task_instance(d, "r1", "t1",
                      ClearTaskInstance(FALSE, FALSE, FALSE)))
    \/ \E t \in TaskIds : Served(api_get_task_logs("d1", "r1", t, 1))
    \/ Served(api_list_dags(1, 0))
    \/ \E d \in DagIds : Served(api_list_dag_runs(d, 1, 0, None, None, NoneStr))
    \/ \E d \in DagIds : Served(api_list_task_instances(d, "r1", 1, 0, NoneStr))
    \/ \E t \in TaskIds :
           Served(api_create_xcom_entry("d1", "r1", t, XCom("k1", 1, 0, "t2", "d2", "r2")))
    \/ \E t \in TaskIds : Served(api_get_xcom_entry("d1", "r1", t, "k1"))
    \/ Served(api_create_pool(Pool("p1", 1, NoneStr, 0, 0, 0, 1)))

SpecRequests == Init /\ [][NextRequests]_vars

\* The run a run request returned carries the dag_id of the path (and, for
\* an update, the run_id of the path) and is stored under them.
RunPathWins ==
    /\ resp.body.dag_id = req.args.dag_id
    /\ req.op = "api_update_dag_run" => resp.body.run_id = req.args.run_id
    /\ get_dag_run(req.args.dag_id, resp.body.run_id) = resp.body

\* The XCom entry a create request returned carries the dag_id, run_id and
\* task_id of the path and is stored under them.
XComPathWins ==
    /\ resp.body.dag_id = req.args.dag_id
    /\ resp.body.run_id = req.args.run_id
    /\ resp.body.task_id = req.args.task_id
    /\ get_xcom_value(req.args.dag_id, req.args.task_id, resp.body.key,
                      req.args.run_id) = resp.body

\* An update of the entity that the dict `before` holds under key: it is
\* accepted, the entity returned carries the key and is what `after` holds
\* under it, and what the dict holds under the key of the body is as before.
KeyedPathWins(before, after, key, bodyKey, returnedKey) ==
    DictHas(before, key) =>
        /\ resp'.status = OK
        /\ returnedKey = key
        /\ DictGet(after, key, NoneObj) = resp'.body
        /\ DictGet(after, bodyKey, NoneObj) = DictGet(before, bodyKey, NoneObj)

\* C16: a create or update request that names its key in the path and a
\* different one in the body (a run's dag_id and run_id; an XCom entry's
\* dag_id, run_id and task_id; a connection's conn_id, a variable's key, a
\* pool's name, a provider's package_name), addressed to a parent or entity
\* that is stored, is accepted; the entity is stored under the key of the
\* path and carries it, the response carries it, and nothing is stored or
\* changed under the key of the body.
C16_PathKeyWins ==
    [][ LET args == req'.args
        IN  /\ ( /\ req'.op = "api_create_dag_run"
                 /\ DAGRunBodyValid(args.dag_run)
                 /\ DictHas(dags, args.dag_id) ) =>
                   /\ resp'.status = OK
                   /\ RunPathWins'
                   /\ DictGet(dag_runs', args.dag_run.dag_id, EmptyDict)
                          = DictGet(dag_runs, args.dag_run.dag_id, EmptyDict)
            /\ ( /\ req'.op = "api_update_dag_run"
                 /\ DAGRunBodyValid(args.dag_run)
                 /\ RunAt(dag_runs, args.dag_id, args.run_id) # NoneObj ) =>
                   /\ resp'.status = OK
                   /\ RunPathWins'
                   /\ DictGet(dag_runs', args.dag_run.dag_id, EmptyDict)
                          = DictGet(dag_runs, args.dag_run.dag_id, EmptyDict)
            /\ ( /\ req'.op = "api_create_xcom_entry"
                 /\ TIAt(task_instances, args) # NoneObj ) =>
                   /\ resp'.status = OK
                   /\ XComPathWins'
                   /\ DictGet(xcoms', args.xcom.dag_id, EmptyDict)
                          = DictGet(xcoms, args.xcom.dag_id, EmptyDict)
            /\ req'.op = "api_update_connection" =>
                   KeyedPathWins(connections, connections', args.key,
                                 args.body.conn_id, resp'.body.conn_id)
            /\ req'.op = "api_update_variable" =>
                   KeyedPathWins(variables, variables', args.key,
                                 args.body.key, resp'.body.key)
            /\ req'.op = "api_update_pool" =>
                   KeyedPathWins(pools, pools', args.key,
                                 args.body.name, resp'.body.name)
            /\ req'.op = "api_update_provider" =>
                   KeyedPathWins(providers, providers', args.key,
                                 args.body.package_name, resp'.body.package_name)
      ]_vars

\* Every stored run names a stored DAG, and every stored task instance lies
\* under a stored DAG and a stored run of it.
ParentsStored ==
    /\ \A i \in 1..Len(dag_runs) : \A j \in 1..Len(dag_runs[i].v) :
           /\ DictHas(dags, dag_runs[i].k)
           /\ DictHas(dags, dag_runs[i].v[j].v.dag_id)
    /\ \A i \in 1..Len(task_instances) : \A j \in 1..Len(task_instances[i].v) :
           \A k \in 1..Len(task_instances[i].v[j].v) :
               LET task_instance == task_instances[i].v[j].v[k].v
               IN  /\ DictHas(dags, task_instance.dag_id)
                   /\ RunAt(dag_runs, task_instance.dag_id, task_instance.run_id) # NoneObj
                   /\ RunAt(dag_runs, task_instances[i].k, task_instances[i].v[j].k) # NoneObj

\* C14: a create-run request (with a body that parses) for a dag_id under
\* which no DAG is stored is answered NotFound and leaves the store as it
\* was; and after every step of the request layer, from an empty or a
\* sample-seeded store, every stored run names a stored DAG and every stored
\* task instance lies under a stored (dag, run) pair.
C14_RunsNeedTheirDag ==
    [][ /\ ( /\ req'.op = "api_create_dag_run"
             /\ DAGRunBodyValid(req'.args.dag_run)
             /\ ~DictHas(dags, req'.args.dag_id) ) =>
               (resp'.status = NotFound /\ UNCHANGED storeVars)
        /\ ParentsStored'
      ]_vars

\* A create-run request for the missing DAG "d2" has just been refused, in a
\* sample-seeded store where an earlier request created run "r2" under "d1".
C14_Witness ==
    /\ req.op = "api_create_dag_run"
    /\ req.args.dag_id = "d2"
    /\ resp.status = NotFound
    /\ RunAt(dag_runs, "d1", "r2") # NoneObj
    /\ task_instances # EmptyDict
    /\ ~DictHas(dags, "d2")

\* Every stored task log lies under a (dag, run, task) that holds a task
\* instance.
LogsUnderTaskInstances ==
    \A i \in 1..Len(task_logs) : \A j \in 1..Len(task_logs[i].v) :
        \A k \in 1..Len(task_logs[i].v[j].v) :
            Len(task_logs[i].v[j].v[k].v) > 0 =>
                TIAt(task_instances, [dag_id |-> task_logs[i].k,
                                      run_id |-> task_logs[i].v[j].k,
                                      task_id |-> task_logs[i].v[j].v[k].k]) # NoneObj

\* C15: after every step of the request layer every stored task log lies
\* under an existing task instance, and an XCom entry is stored only by a
\* request whose task instance exists; a log request or an XCom request
\* addressed to a (dag, run, task) that holds no task instance is answered
\* NotFound and leaves the store as it was.
C15_EntriesNeedTheirTaskInstance ==
    [][ /\ LogsUnderTaskInstances'
        /\ xcoms' # xcoms => TIAt(task_instances, req'.args) # NoneObj
        /\ ( /\ req'.op \in {"api_get_task_logs", "api_create_xcom_entry",
                             "api_get_xcom_entry"}
             /\ TIAt(task_instances, req'.args) = NoneObj ) =>
               (resp'.status = NotFound /\ UNCHANGED storeVars)
      ]_vars

----------------------------------------------------------------------------
(* SpecRegistry: the registry of stores and the server.  Instances "a" and  *)
(* "b" are looked up, started (with or without the sample data) and         *)
(* stopped in any order, and the running applications serve requests.  The  *)
(* stores are written by populate_instance and by the handlers only.        *)

\* populate_instance with one outcome of its random choices.
Sample == [is_paused |-> FALSE, run_state |-> "success", ti_state |-> "success",
           try_number |-> 1]

NextRegistry ==
    \/ \E id \in {"a", "b"} : Call_get_instance(id)
    \/ Call_list_instances
    \/ \E id \in {"a", "b"} : \E populate \in BOOLEAN : start_instance(id, populate, Sample)
    \/ \E id \in {"a", "b"} : stop_instance(id)
    \/ \E id \in {"a", "b"} : Route(id)
    \/ Served(api_get_task_logs("d1", "r1", "t1", 1))
    \/ Served(api_list_dags(1, 0))
    \/ \E id \in {"a", "b"} : Served(api_list_connections(1, 0, id))

SpecRegistry == Init /\ [][NextRegistry]_vars

\* The identifiers MockStore.instances holds stores for.
RegisteredIds == {instances[i].k : i \in 1..Len(instances)}

\* The identifier a step hands to MockStore.get_instance, as a set: the
\* argument of a direct call or of start_instance (whose create_app makes the
\* call).
Referenced(request) ==
    IF request.op \in {"get_instance", "start_instance"}
    THEN {request.args.instance_id} ELSE {}

\* C17: the first get_instance(id) makes a new (empty) store for id and every
\* later one returns the store made then, with all that was written to it
\* since, and makes nothing; no call changes the store of another id; the
\* registry holds one store per identifier handed to get_instance so far and
\* for no other, and list_instances returns exactly those identifiers.
C17_StoreMadeOncePerId ==
    [][ /\ \A id \in {"a", "b"} :
              (req'.op = "get_instance" /\ req'.args.instance_id = id) =>
                  /\ IF DictHas(instances, id)
                     THEN /\ resp'.body = StoreOf(id)
                          /\ StoreOf(id)' = StoreOf(id)
                          /\ Len(instances') = Len(instances)
                     ELSE /\ resp'.body = FreshStore
                          /\ StoreOf(id)' = FreshStore
                          /\ Len(instances') = Len(instances) + 1
                  /\ \A other \in {"a", "b"} \ {id} : StoreOf(other)' = StoreOf(other)
        /\ RegisteredIds' = RegisteredIds \cup Referenced(req')
        /\ Cardinality(RegisteredIds') = Len(instances')
        /\ req'.op = "list_instances" =>
              /\ {resp'.body.items[i] : i \in 1..Len(resp'.body.items)} = RegisteredIds
              /\ Len(resp'.body.items) = Cardinality(RegisteredIds)
      ]_vars

\* get_instance("a") has just returned the store of "a" with a task log that
\* was written to it after it was made, while "b" has a store of its own
\* without it.
C17_Witness ==
    /\ req.op = "get_instance"
    /\ req.args.instance_id = "a"
    /\ resp.body.task_logs # EmptyDict
    /\ StoreOf("a") = resp.body
    /\ StoreOf("b") # NoneObj
    /\ StoreOf("b") # StoreOf("a")

\* C18: when an instance that is not running is started without the sample
\* data (so, whenever it is started again after it was started, written to
\* and stopped), it is served by a cold store: the store of its identifier
\* is empty, and nothing written before the stop is retrievable.
C18_RestartIsCold ==
    [][ \A id \in {"a", "b"} :
            ( /\ req'.op = "start_instance"
              /\ req'.args.instance_id = id
              /\ ~req'.args.populate
              /\ ~DictHas(servers, id)
              /\ DictHas(servers', id) ) =>
                StoreOf(id)' = FreshStore
      ]_vars

\* The operations of the request layer in SpecRegistry.
RegistryRequests == {"api_get_task_logs", "api_list_dags", "api_list_connections"}

\* C19: a request that the application of instance id serves leaves the
\* store of every other instance as it was; what it returns is read from the
\* store of id (the page of DAGs is the page of the DAGs of id, the log
\* returned is the one the store of id holds afterwards), and a request that
\* carries an instance_id query parameter returns no entity at all and
\* changes no store, whichever instance the parameter names.
C19_InstancesAreIsolated ==
    [][ \A id \in {"a", "b"} :
            (app = id /\ app' = id /\ req'.op \in RegistryRequests) =>
                /\ \A other \in {"a", "b"} \ {id} : StoreOf(other)' = StoreOf(other)
                /\ req'.op = "api_list_dags" =>
                       resp'.body = Collection(Page(DictValues(StoreOf(id).dags),
                                                    req'.args.limit, req'.args.offset),
                                               Len(StoreOf(id).dags))
                /\ req'.op = "api_get_task_logs" =>
                       resp'.body =
                           DictGet(DictGet(DictGet(DictGet((StoreOf(id))'.task_logs,
                               req'.args.dag_id, EmptyDict), req'.args.run_id, EmptyDict),
                               req'.args.task_id, EmptyDict), req'.args.try_number, NoneObj)
                /\ req'.op = "api_list_connections" =>
                       /\ resp'.body = NoneObj
                       /\ StoreOf(id)' = StoreOf(id)
      ]_vars

\* The application of "b" has just served a log request that wrote to the
\* store of "b", while the application of "a" runs on a store that holds the
\* sample data and no log.
C19_Witness ==
    /\ app = "b"
    /\ req.op = "api_get_task_logs"
    /\ DictHas(servers, "a") /\ DictHas(servers, "b")
    /\ StoreOf("b") # NoneObj /\ StoreOf("a") # NoneObj
    /\ StoreOf("b").task_logs # EmptyDict
    /\ StoreOf("a").task_logs = EmptyDict
    /\ StoreOf("a").connections # EmptyDict

----------------------------------------------------------------------------
(* SpecLookup: the lookup methods of one InstanceStore, called with keys    *)
(* the store holds and with keys it lacks at any level, on a store that a   *)
(* few adds and a delete have filled.                                       *)

NextLookup ==
    \/ Free(Call_add_dag_run(DAGRun("d1", "r1", 0, 0, None, "running")))
    \/ Free(Call_add_task_instance(TaskInstance("t1", "d1", "r1", "none", 1,
                                                None, None, None)))
    \/ Free(Call_add_task_log("d1", "r1", "t1", 1, TaskLog(1, "x", 0)))
    \/ Free(Call_add_xcom_value(XCom("k1", 1, 0, "t1", "d1", "r1")))
    \/ Free(Call_delete_xcom_value("d1", "t1", "k1", "r1"))
    \/ Free(Call_add_pool(Pool("p1", 1, NoneStr, 0, 0, 0, 1)))
    \/ Free(Call_add_provider(Provider("pk1", "1.0", <<"h1">>)))
    \/ \E d \in DagIds : \E r \in {"r1", "r2"} :
           Free(Call_lookup("get_dag_run", <<d, r>>, get_dag_run(d, r)))
    \/ \E d \in DagIds : \E r \in {"r1", "r2"} : \E t \in TaskIds :
           Free(Call_lookup("get_task_instance", <<d, r, t>>, get_task_instance(d, r, t)))
    \/ \E d \in DagIds : \E r \in {"r1", "r2"} :
           Free(Call_lookup("get_task_instances", <<d, r>>, get_task_instances(d, r)))
    \/ \E d \in DagIds : \E r \in {"r1", "r2"} : \E t \in TaskIds : \E n \in 1..2 :
           Free(Call_lookup("get_task_log", <<d, r, t, n>>, get_task_log(d, r, t, n)))
    \/ \E d \in DagIds : \E t \in TaskIds : \E k \in {"k1", "k2"} : \E r \in {"r1", "r2"} :
           Free(Call_lookup("get_xcom_value", <<d, t, k, r>>, get_xcom_value(d, t, k, r)))
    \/ \E d \in DagIds : \E t \in TaskIds : \E r \in {NoneStr, "r1"} :
           \E k \in {NoneStr, "k1"} :
               Free(Call_lookup("list_xcom_values", <<d, t, r, k>>,
                                list_xcom_values(d, t, r, k)))
    \/ \E name \in {"pk1", "pk2"} :
           Free(Call_lookup("get_provider_hooks", <<name>>, get_provider_hooks(name)))
    \/ \E name \in {"p1", "p2"} : Free(Call_update_pool_slots(name, [occupied |-> 1]))

SpecLookup == Init /\ [][NextLookup]_vars

\* TRUE when the nested dict d lacks a level of the key path: d does not
\* hold path[1], or what it holds there lacks a level of the rest.
RECURSIVE Missing(_, _)
Missing(d, path) ==
    /\ Len(path) > 0
    /\ \/ ~DictHas(d, Head(path))
       \/ Missing(DictGet(d, Head(path), EmptyDict), Tail(path))

\* C20: a lookup returns (it does not raise) and leaves the store, nested
\* dicts included, as it was; when a level of its key path is missing, a get
\* of a run, a task instance, a task log or an XCom value returns None,
\* get_task_instances, get_provider_hooks and list_xcom_values return an
\* empty list; update_pool_slots for a pool that is not stored returns None
\* and leaves the store as it was.
C20_LookupsNeitherRaiseNorMutate ==
    [][ LET op == req'.op
            path == req'.args
            value == resp'.body.value
        IN  /\ op \in {"get_dag_run", "get_task_instance", "get_task_instances",
                       "get_task_log", "get_xcom_value", "list_xcom_values",
                       "get_provider_hooks"} =>
                   (resp'.status = Returned /\ UNCHANGED storeVars)
            /\ (op = "get_dag_run" /\ Missing(dag_runs, path)) => value = NoneObj
            /\ (op = "get_task_instance" /\ Missing(task_instances, path)) =>
                   value = NoneObj
            /\ (op = "get_task_log" /\ Missing(task_logs, path)) => value = NoneObj
            /\ (op = "get_xcom_value" /\ Missing(xcoms, path)) => value = NoneObj
            /\ (op = "get_task_instances" /\ Missing(task_instances, path)) =>
                   value = <<>>
            /\ (op = "list_xcom_values" /\ Missing(xcoms, SubSeq(path, 1, 2))) =>
                   value = <<>>
            /\ (op = "get_provider_hooks" /\ Missing(providers, path)) => value = <<>>
            /\ (op = "update_pool_slots" /\ ~DictHas(pools, path.name)) =>
                   (resp'.body = NoneObj /\ UNCHANGED storeVars)
      ]_vars

\* get_task_log has just returned None for a try_number that is not stored
\* under a task whose dag, run and task levels are, in a store that also
\* holds XCom levels emptied by a delete.
C20_Witness ==
    /\ req.op = "get_task_log"
    /\ req.args = <<"d1", "r1", "t1", 2>>
    /\ resp.body.value = NoneObj
    /\ get_task_log("d1", "r1", "t1", 1) # NoneObj
    /\ DictHas(DictGet(DictGet(xcoms, "d1", EmptyDict), "t1", EmptyDict), "k1")
    /\ XComRuns("d1", "t1", "k1") = EmptyDict

----------------------------------------------------------------------------
(* Deletes of connections, variables, pools and providers (on SpecKeyed).   *)

\* DELETE handlers answer 204 when they removed the entity.
NoContent == "204"

\* The delete of `key` from a keyed collection that is `before` at the call
\* and `after` at the return: the method returns whether the key was stored,
\* the key is not stored afterwards and every other key holds what it held;
\* the request is answered 204 when the key was stored and 404 when not.
DeleteRule(storeOp, apiOp, key, before, after) ==
    /\ req'.op \in {storeOp, apiOp} =>
           /\ ~DictHas(after, key)
           /\ \A i \in 1..Len(before) :
                  before[i].k # key => DictGet(after, before[i].k, NoneObj) = before[i].v
           /\ Len(after) = IF DictHas(before, key) THEN Len(before) - 1 ELSE Len(before)
    /\ req'.op = storeOp =>
           /\ resp'.status = Returned
           /\ resp'.body.value = DictHas(before, key)
    /\ req'.op = apiOp =>
           resp'.status = IF DictHas(before, key) THEN NoContent ELSE NotFound

\* C21: a delete of a connection, variable, pool or provider returns true
\* exactly when the key was stored and false otherwise, and does not raise;
\* afterwards the key is not stored and every other key is as before.  A
\* delete request for a stored key is answered 204 and one for a key that is
\* not stored (a second delete of the same key included) is answered 404.
C21_DeleteReportsWhetherStored ==
    [][ /\ req'.op \in {"delete_connection", "api_delete_connection"} =>
               DeleteRule("delete_connection", "api_delete_connection",
                          IF req'.op = "delete_connection" THEN req'.args.conn_id
                          ELSE req'.args.key, connections, connections')
        /\ req'.op \in {"delete_variable", "api_delete_variable"} =>
               DeleteRule("delete_variable", "api_delete_variable", req'.args.key,
                          variables, variables')
        /\ req'.op \in {"delete_pool", "api_delete_pool"} =>
               DeleteRule("delete_pool", "api_delete_pool",
                          IF req'.op = "delete_pool" THEN req'.args.name
                          ELSE req'.args.key, pools, pools')
        /\ req'.op \in {"delete_provider", "api_delete_provider"} =>
               DeleteRule("delete_provider", "api_delete_provider",
                          IF req'.op = "delete_provider" THEN req'.args.package_name
                          ELSE req'.args.key, providers, providers')
      ]_vars

----------------------------------------------------------------------------
(* Requests as a whole (on SpecRequests).                                   *)

\* What a request answered 200 has done when it is answered: the run a run
\* request returned is stored under the keys of the path; the task instance
\* a set-state request addressed is stored in the state of the request; the
\* task instance a clear request reports as cleared is stored reset; the log
\* a log request returned is stored.
EffectsApplied ==
    /\ req.op \in {"api_create_dag_run", "api_update_dag_run"} => RunPathWins
    /\ req.op = "api_set_task_instance_state" =>
           /\ Addressed(req.args) # NoneObj
           /\ Addressed(req.args).state = req.args.state
           /\ resp.body.state = req.args.state
    /\ (req.op = "api_clear_task_instance"
           /\ resp.body.message = "Task instance cleared") =>
           IsReset(Addressed(req.args))
    /\ req.op = "api_get_task_logs" =>
           get_task_log(req.args.dag_id, req.args.run_id, req.args.task_id,
                        req.args.try_number) = resp.body

\* C22: a request that is answered with an error (404 or 409, and likewise a
\* body that is refused or a handler that raises) leaves the whole store as
\* it was, and a request that is answered 200 has applied all of its
\* effects.
C22_RequestsAreAtomic ==
    [][ resp'.status # Returned =>
            /\ resp'.status # OK => UNCHANGED storeVars
            /\ resp'.status = OK => EffectsApplied'
      ]_vars

\* A set-state request for a task instance that is not stored has just been
\* answered 404, in a store that holds the sample data and a log.
C22_Witness ==
    /\ req.op = "api_set_task_instance_state"
    /\ resp.status = NotFound
    /\ task_instances # EmptyDict
    /\ dag_runs # EmptyDict
    /\ task_logs # EmptyDict

\* C23: every well-formed request (one whose body is not refused) to an
\* endpoint of the application is answered 200 or 204, 404 or 409; no
\* handler ends in an internal failure.
C23_DocumentedOutcomesOnly ==
    [][ resp'.status \notin {Returned, ValidationFailure} =>
            resp'.status \in {OK, NoContent, NotFound, Conflict}
      ]_vars

----------------------------------------------------------------------------
(* The states of a task instance (on SpecFresh).                            *)

\* The states the state machine calls terminal.
TerminalStates == {"success", "failed", "skipped", "upstream_failed"}

\* The moves of the state machine none -> queued/running -> terminal -> none:
\* a request may leave the state as it is, take none to queued or running,
\* queued to running, queued or running to a terminal state, and, when it is
\* a clear request, take any state to none.
AllowedMove(from, to, op) ==
    \/ from = to
    \/ from = "none" /\ to \in {"queued", "running"}
    \/ from = "queued" /\ to \in {"running"} \cup TerminalStates
    \/ from = "running" /\ to \in TerminalStates
    \/ to = "none" /\ op = "api_clear_task_instance"

\* C24: along every sequence of set-state and clear requests the task
\* instance moves none -> queued/running -> terminal -> none only: a task
\* instance in a terminal state leaves it only through a clear request, to
\* none, never through a set-state request.
C24_StateMachine ==
    [][ LET before == get_task_instance("d1", "r1", "t1")
            after == TIAt(task_instances', [dag_id |-> "d1", run_id |-> "r1",
                                            task_id |-> "t1"])
        IN  ( /\ req'.op \in {"api_set_task_instance_state", "api_clear_task_instance"}
              /\ before # NoneObj ) =>
                AllowedMove(before.state, after.state, req'.op)
      ]_vars

----------------------------------------------------------------------------
(* SpecFrame: up to MaxOps calls that store, change and delete entities of  *)
(* several kinds side by side: task instances "t1" and "t2" of one run, the *)
(* run and another, a log, pools "p1" and "p2".                             *)

NextFrame ==
    \/ Counted(Call_add_dag(DAG("d1", FALSE)))
    \/ Counted(Call_add_dag_run(DAGRun("d1", "r1", 0, 0, None, "running")))
    \/ \E t \in TaskIds :
           Counted(Call_add_task_instance(TaskInstance(t, "d1", "r1", "running", 1,
                                                       0, None, None)))
    \/ \E t \in TaskIds : Counted(api_set_task_instance_state("d1", "r1", t, "success"))
    \/ \E t \in TaskIds :
           Counted(api_clear_task_instance("d1", "r1", t,
                                           ClearTaskInstance(FALSE, FALSE, FALSE)))
    \/ Counted(api_create_dag_run("d1", DAGRun("d2", "r2", 0, 0, None, "queued")))
    \/ Counted(api_update_dag_run("d1", "r1", DAGRun("d2", "r2", 0, 0, None, "failed")))
    \/ Counted(api_get_task_logs("d1", "r1", "t1", 1))
    \/ Counted(api_list_task_instances("d1", "r1", 1, 0, NoneStr))
    \/ \E name \in {"p1", "p2"} : Counted(Call_add_pool(Pool(name, 1, NoneStr, 0, 0, 0, 1)))
    \/ Counted(Call_delete_pool("p1"))
    \/ Counted(Call_update_pool_slots("p1", [occupied |-> 1]))
    \/ Counted(api_create_pool(Pool("p2", 1, NoneStr, 0, 0, 0, 1)))

SpecFrame == Init /\ [][NextFrame]_vars

\* The entities a dict nested depth levels deep holds, each with its key path.
RECURSIVE Entries(_, _)
Entries(d, depth) ==
    IF depth = 1
    THEN {[path |-> <<d[i].k>>, v |-> d[i].v] : i \in 1..Len(d)}
    ELSE UNION {{[path |-> <<d[i].k>> \o e.path, v |-> e.v] :
                    e \in Entries(d[i].v, depth - 1)} : i \in 1..Len(d)}

\* The collection and the key path a call is addressed to: what it may
\* store, change or delete.  Reads and refused requests address nothing.
Target(request, response) ==
    LET op == request.op
        args == request.args
    IN  CASE op = "add_dag" -> [coll |-> "dags", path |-> <<args.dag.dag_id>>]
          [] op = "add_dag_run" ->
                [coll |-> "dag_runs", path |-> <<args.dag_run.dag_id, args.dag_run.run_id>>]
          [] op = "add_task_instance" ->
                [coll |-> "task_instances",
                 path |-> <<args.task_instance.dag_id, args.task_instance.run_id,
                            args.task_instance.task_id>>]
          [] op \in {"api_set_task_instance_state", "api_clear_task_instance"} ->
                [coll |-> "task_instances",
                 path |-> <<args.dag_id, args.run_id, args.task_id>>]
          [] op = "api_create_dag_run" /\ response.status = OK ->
                [coll |-> "dag_runs", path |-> <<args.dag_id, response.body.run_id>>]
          [] op = "api_update_dag_run" ->
                [coll |-> "dag_runs", path |-> <<args.dag_id, args.run_id>>]
          [] op = "api_get_task_logs" ->
                [coll |-> "task_logs",
                 path |-> <<args.dag_id, args.run_id, args.task_id, args.try_number>>]
          [] op = "add_pool" -> [coll |-> "pools", path |-> <<args.pool.name>>]
          [] op \in {"delete_pool", "update_pool_slots"} ->
                [coll |-> "pools", path |-> <<args.name>>]
          [] OTHER -> [coll |-> "none", path |-> <<>>]

\* The collection coll, `before` at a call and `after` at its return, has
\* changed only where target points: every entity it held is held unchanged
\* under the same key path, or is the one addressed, and that one is gone
\* only when the call is a delete; every entity it holds now was held or is
\* the one addressed.
Framed(coll, depth, before, after, target, op) ==
    /\ \A e \in Entries(before, depth) :
           \/ e \in Entries(after, depth)
           \/ /\ target.coll = coll
              /\ target.path = e.path
              /\ (\A f \in Entries(after, depth) : f.path # e.path) => op = "delete_pool"
    /\ \A f \in Entries(after, depth) :
           \/ f \in Entries(before, depth)
           \/ target.coll = coll /\ target.path = f.path

\* C25: a task instance changes only through a set-state or clear request
\* (or an add) addressed to its own (dag_id, run_id, task_id), never through
\* a request for a run, another task instance, a pool or a read; an add,
\* update or delete under one key leaves every other key of its collection
\* and every other collection as they were, and no entity disappears but by
\* a delete of its key.
C25_OnlyTheAddressedEntityChanges ==
    [][ LET target == Target(req', resp')
        IN  /\ Framed("dags", 1, dags, dags', target, req'.op)
            /\ Framed("dag_runs", 2, dag_runs, dag_runs', target, req'.op)
            /\ Framed("task_instances", 3, task_instances, task_instances', target, req'.op)
            /\ Framed("task_logs", 4, task_logs, task_logs', target, req'.op)
            /\ Framed("pools", 1, pools, pools', target, req'.op)
            /\ UNCHANGED <<variables, connections, xcoms, providers>>
      ]_vars

\* A set-state request has just changed task instance "t1" while "t2", of
\* the same run, is stored as it was added.
C25_Witness ==
    /\ req.op = "api_set_task_instance_state"
    /\ req.args.task_id = "t1"
    /\ resp.status = OK
    /\ get_task_instance("d1", "r1", "t1").state = "success"
    /\ get_task_instance("d1", "r1", "t2") =
           TaskInstance("t2", "d1", "r1", "running", 1, 0, None, None)

----------------------------------------------------------------------------
(* Ordering and filtering of the lists (on SpecList).                       *)

\* sorted is all put in the order of field: ascending, or descending when
\* reverse; it holds the entities of all and no other.
SortedBy(sorted, all, field, reverse) ==
    /\ Len(sorted) = Len(all)
    /\ {sorted[i] : i \in 1..Len(sorted)} = {all[i] : i \in 1..Len(all)}
    /\ \A i, j \in 1..Len(sorted) :
           i < j => IF reverse THEN ~FieldLt(field, sorted[i][field], sorted[j][field])
                               ELSE ~FieldLt(field, sorted[j][field], sorted[i][field])

\* The pages of limit entities at offsets 0, limit, 2 * limit, ... of a list
\* method, PageAt(limit, offset) being what it returns, are the consecutive
\* pieces of what it returns in full: put one after the other they are
\* `full`, and no entity is on two of them.
PagesCover(full, limit, PageAt(_, _)) ==
    LET count == (Len(full) \div limit) + 1
        pages == [n \in 1..count |-> PageAt(limit, (n - 1) * limit)]
    IN  /\ Concat(pages) = full
        /\ \A m, n \in 1..count :
               m # n => {pages[m][i] : i \in 1..Len(pages[m])}
                            \cap {pages[n][i] : i \in 1..Len(pages[n])} = {}

\* C26: list_pools, list_variables and list_providers with order_by = f sort
\* the whole collection by field f, ascending, or descending when order_by
\* is "-f", before they apply offset and limit: the list in full is the
\* sorted collection, and the consecutive pages over it are disjoint and
\* make up the sorted collection.
C26_OrderThenPaginate ==
    /\ \A field \in {"name", "slots"}, reverse \in BOOLEAN :
           LET order_by == IF reverse THEN "-" \o field ELSE field
               full == list_pools(None, None, order_by)
           IN  /\ SortedBy(full, DictValues(pools), field, reverse)
               /\ \A limit \in Limits :
                      PagesCover(full, limit, LAMBDA l, o : list_pools(l, o, order_by))
    /\ \A field \in {"key"}, reverse \in BOOLEAN :
           LET order_by == IF reverse THEN "-" \o field ELSE field
               full == list_variables(None, None, order_by)
           IN  /\ SortedBy(full, DictValues(variables), field, reverse)
               /\ \A limit \in Limits :
                      PagesCover(full, limit, LAMBDA l, o : list_variables(l, o, order_by))
    /\ \A field \in {"package_name"}, reverse \in BOOLEAN :
           LET order_by == IF reverse THEN "-" \o field ELSE field
               full == list_providers(None, None, order_by)
           IN  /\ SortedBy(full, DictValues(providers), field, reverse)
               /\ \A limit \in Limits :
                      PagesCover(full, limit, LAMBDA l, o : list_providers(l, o, order_by))
    /\ (req.op = "list_pools" /\ req.args.order_by = "-name") =>
           resp.body.items =
               Positions(list_pools(None, None, "-name"), req.args.limit, req.args.offset)

\* Pools "p1", "p2" and "p3" were added in an order that is neither the
\* ascending nor the descending order of their names, so sorting moves them
\* and the pages of one entity differ from the pages of the unsorted list.
C26_Witness ==
    /\ Len(pools) = 3
    /\ pools[1].k = "p2"
    /\ list_pools(1, 0, "name") # list_pools(1, 0, NoneStr)
    /\ list_pools(1, 0, "-name") # list_pools(1, 0, NoneStr)
    /\ list_pools(1, 1, "-name") = <<pools[1].v>>

----------------------------------------------------------------------------
(* Requests of several clients at one instance. uvicorn.Server.serve runs   *)
(* the application on one event loop (server.py:26-29); every handler is a  *)
(* coroutine whose body holds no await, so once the loop starts a handler   *)
(* it runs it through its checks and its writes to the end before it starts *)
(* the handler of another request. The order in which the loop starts the   *)
(* handlers of the requests it has received is not fixed.                   *)

\* The state of a request the loop has not run yet.
Waiting == "waiting"

\* The requests the clients send: POST /connections for "c1", POST dagRuns
\* of "d1" for "r2", and setTaskInstanceState on ("d1", "r1", "t1").
ConcurrentRequests ==
    [op : {"api_create_connection"}, key : {"c1"}, state : {NoneStr}]
        \cup [op : {"api_create_dag_run"}, key : {"r2"}, state : {NoneStr}]
        \cup [op : {"api_set_task_instance_state"}, key : {"t1"},
              state : {"success", "failed"}]

\* The key a create request carries is stored.
KeyStored(request) ==
    CASE request.op = "api_create_connection" -> DictHas(connections, request.key)
      [] request.op = "api_create_dag_run" -> get_dag_run("d1", request.key) # NoneObj
      [] OTHER -> FALSE

\* The server receives the request of client c.
Receive(c, request) ==
    /\ app # NoneStr
    /\ pending[c] = NoneObj
    /\ pending' = [pending EXCEPT
                       ![c] = [request |-> request, stored |-> KeyStored(request),
                               status |-> Waiting]]
    /\ UNCHANGED <<storeVars, now, req, resp, ops, registryVars>>

\* The handler the application routes the request to.
Handler(request) ==
    CASE request.op = "api_create_connection" ->
             api_create_connection(Connection(request.key, "http", "localhost"))
      [] request.op = "api_create_dag_run" ->
             api_create_dag_run("d1", DAGRun("d1", request.key, 0, 0, None, "queued"))
      [] request.op = "api_set_task_instance_state" ->
             api_set_task_instance_state("d1", "r1", request.key, request.state)

\* The event loop runs the handler of the request of client c, from its
\* first statement to its return or its exception.
Run(c) ==
    /\ app # NoneStr
    /\ pending[c] # NoneObj
    /\ pending[c].status = Waiting
    /\ Handler(pending[c].request)
    /\ pending' = [pending EXCEPT ![c].status = resp'.status]
    /\ UNCHANGED <<ops, registryVars>>

\* Every client has its answer; the clients go on to their next requests.
Reply ==
    /\ \A c \in Clients : pending[c] # NoneObj /\ pending[c].status # Waiting
    /\ pending' = [c \in Clients |-> NoneObj]
    /\ UNCHANGED <<storeVars, now, req, resp, ops, registryVars>>

NextConcurrent ==
    \/ /\ servers = EmptyDict
       /\ \E choice \in SampleChoices : start_instance("a", TRUE, choice)
    \/ Route("a")
    \/ \E c \in Clients : \E request \in ConcurrentRequests : Receive(c, request)
    \/ \E c \in Clients : Run(c)
    \/ Reply

SpecConcurrent == Init /\ [][NextConcurrent]_vars

\* Both clients have their answers.
Answered == \A c \in Clients : pending[c] # NoneObj /\ pending[c].status # Waiting

\* Two requests that were at the server together come out as they would one
\* after the other: of two creates of one key that was not stored when the
\* first of them arrived, for the operations in creates, one is answered
\* 200 and the other 409; after two setTaskInstanceState requests the task
\* instance is in the state one of them asked for.
Serialized(creates) ==
    (Answered /\ pending[1].request.op = pending[2].request.op
              /\ pending[1].request.key = pending[2].request.key) =>
        /\ (pending[1].request.op \in creates
                /\ \E c \in Clients : ~pending[c].stored) =>
               \E c, d \in Clients :
                   /\ c # d
                   /\ pending[c].status = OK
                   /\ pending[d].status = Conflict
        /\ pending[1].request.op = "api_set_task_instance_state" =>
               get_task_instance("d1", "r1", "t1").state
                   \in {pending[1].request.state, pending[2].request.state}

\* C27: the requests on one instance are serialized: of two concurrent
\* create requests with the same key exactly one succeeds and the other is
\* answered 409 Conflict, and two concurrent set-state requests on one task
\* instance leave it in the state of one of the two sequential orders.
C27_ConcurrentRequestsAreSerialized ==
    Serialized({"api_create_connection"})

\* The same without the creates: the two setTaskInstanceState requests alone.
SetStatesAreSerialized == Serialized({})

----------------------------------------------------------------------------
(* The XCom upsert and delete (on SpecXCom).                                *)

\* C28: add_xcom_value is total: for every XCom x, one whose run_id is unset
\* or empty included, right after add_xcom_value(x) the lookup by
\* (x.dag_id, x.task_id, x.key) returns an entry and list_xcom_values for
\* that dag, task and key contains x.
C28_XComUpsertIsTotal ==
    [][ \A x \in XComInputs :
            req' = [op |-> "add_xcom_value", args |-> [xcom |-> x]] =>
                LET found == get_xcom_value(x.dag_id, x.task_id, x.key, NoneStr)'
                    listed == list_xcom_values(x.dag_id, x.task_id, NoneStr, x.key)'
                IN  /\ found # NoneObj
                    /\ \E i \in 1..Len(listed) : listed[i] = x ]_vars

\* C29: delete_xcom_value returns true exactly when the call removed at
\* least one stored entry: with a run_id it removes the entry of that run
\* and leaves the other runs' entries under the key; without a run_id it
\* removes every entry under (dag_id, task_id, key); addressed to a key that
\* holds no entries it returns false.
C29_DeleteXComReportsRemoval ==
    [][ \A key \in XComKeys, r \in OptRunIds :
            req' = [op |-> "delete_xcom_value",
                    args |-> [dag_id |-> "d1", task_id |-> "t1", key |-> key,
                              run_id |-> r]] =>
                LET before == list_xcom_values("d1", "t1", NoneStr, key)
                    after == list_xcom_values("d1", "t1", NoneStr, key)'
                    OtherRun(x) == x.run_id # r
                IN  /\ resp'.body.value = (Len(after) < Len(before))
                    /\ Truthy(r) => after = SelectSeq(before, OtherRun)
                    /\ ~Truthy(r) => after = << >> ]_vars

----------------------------------------------------------------------------
(* Filters of the run and task-instance lists (on SpecList).                *)

\* C30: list_dag_runs keeps exactly the runs of the DAG that pass every
\* filter supplied (execution_date >= execution_date_gte, execution_date <=
\* execution_date_lte, both inclusive, state equal to the state filter), and
\* list_task_instances exactly the task instances in the state asked for;
\* the filters apply before the page is cut, and total_entries is the number
\* of entities that pass, whatever limit and offset are.
C30_FiltersThenTotal ==
    /\ \A dag_id \in {"d1", "d2"}, f \in RunFilters :
           LET all == DictValues(DictGet(dag_runs, dag_id, EmptyDict))
               passing == RunsPassing(all, f[1], f[2], f[3])
           IN  /\ list_dag_runs_response(dag_id, Len(all) + 1, 0, f[1], f[2], f[3]).items
                      = passing
               /\ \A limit \in Limits, offset \in Offsets :
                      LET page == list_dag_runs_response(dag_id, limit, offset,
                                                         f[1], f[2], f[3])
                      IN  /\ page.total_entries = Len(passing)
                          /\ \A i \in 1..Len(page.items) :
                                 \E j \in 1..Len(passing) : passing[j] = page.items[i]
    /\ \A state \in {NoneStr, "", "none", "success"} :
           LET all == get_task_instances("d1", "r1")
               passing == TaskInstancesPassing(all, state)
           IN  /\ list_task_instances_response("d1", "r1", Len(all) + 1, 0, state).items
                      = passing
               /\ \A limit \in Limits, offset \in Offsets :
                      LET page == list_task_instances_response("d1", "r1", limit, offset,
                                                               state)
                      IN  /\ page.total_entries = Len(passing)
                          /\ \A i \in 1..Len(page.items) :
                                 \E j \in 1..Len(passing) : passing[j] = page.items[i]
    /\ req.op = "api_list_dag_runs" =>
           resp.body.total_entries =
               Len(RunsPassing(DictValues(DictGet(dag_runs, req.args.dag_id, EmptyDict)),
                               req.args.execution_date_gte, req.args.execution_date_lte,
                               req.args.state))

\* Runs "r1" (running) and "r2" (success) of "d1" are stored and the runs in
\* state "success" were listed from offset 1: the page is empty,
\* total_entries is 1, and the run the filter rejects is not counted.
C30_Witness ==
    /\ req.op = "api_list_dag_runs"
    /\ req.args.state = "success"
    /\ req.args.offset = 1
    /\ Len(DictGet(dag_runs, "d1", EmptyDict)) = 2
    /\ get_dag_run("d1", "r1") # NoneObj
    /\ resp.body.items = << >>
    /\ resp.body.total_entries = 1

----------------------------------------------------------------------------
(* Ordered listing with any order_by (on SpecKeyed).                        *)

\* C31: list_pools, list_variables and list_providers return a sequence and
\* never raise, whatever order_by is: a field that is None on some entities
\* (description), a field the entity does not have, or a bare "-".
C31_OrderedListingNeverFails ==
    req.op \in {"list_pools", "list_variables", "list_providers"} =>
        /\ resp.status = Returned
        /\ DOMAIN resp.body.items = 1..Len(resp.body.items)

----------------------------------------------------------------------------
(* Read requests (on SpecRequests).                                         *)

\* The GET routes among the request handlers of the model.
GetRequests ==
    {"api_list_dags", "api_list_dag_runs", "api_list_task_instances", "api_get_task_logs",
     "api_get_xcom_entry", "api_list_connections", "api_list_variables", "api_list_pools",
     "api_list_providers"}

\* C32: a GET request leaves the instance store as it was before the
\* request.
C32_ReadsLeaveTheStoreAlone ==
    [][ req'.op \in GetRequests => UNCHANGED storeVars ]_vars

\* The same for the GET requests other than the one for task logs.
OtherReadsLeaveTheStoreAlone ==
    [][ req'.op \in GetRequests \ {"api_get_task_logs"} => UNCHANGED storeVars ]_vars

----------------------------------------------------------------------------
(* Set-state with a state outside the four the handler knows (on SpecTI).   *)

\* C33: an answered set-state request whose state is none of "running",
\* "success", "failed" and "skipped" changes the state field of the task
\* instance and nothing else of it: start_date, end_date, duration and
\* try_number stay; and no set-state request changes try_number.
C33_OtherStatesChangeStateOnly ==
    [][ (req'.op = "api_set_task_instance_state" /\ resp'.status = OK
             /\ req'.args.task_id = "t1") =>
            LET before == get_task_instance("d1", "r1", "t1")
                after == get_task_instance("d1", "r1", "t1")'
            IN  /\ after.try_number = before.try_number
                /\ after.state = req'.args.state
                /\ req'.args.state \notin {"running", "success", "failed", "skipped"} =>
                       /\ after = [before EXCEPT !.state = req'.args.state]
                       /\ now' = now ]_vars

\* A task instance on its second try, with a start_date, an end_date and a
\* duration, was set to "queued" and still has all four.
C33_Witness ==
    /\ req.op = "api_set_task_instance_state"
    /\ req.args.state = "queued"
    /\ resp.status = OK
    /\ get_task_instance("d1", "r1", "t1").state = "queued"
    /\ get_task_instance("d1", "r1", "t1").try_number = 2
    /\ get_task_instance("d1", "r1", "t1").start_date # None
    /\ get_task_instance("d1", "r1", "t1").end_date # None
    /\ get_task_instance("d1", "r1", "t1").duration # None

----------------------------------------------------------------------------
(* Run creation over stored runs (on SpecRuns).                             *)

\* C34: a create-run request never overwrites a stored run: each answered
\* create-run request under a DAG adds one run to the runs of that DAG and
\* leaves every run stored before as it was, also when its run_id is
\* generated or already stored.
C34_CreateRunNeverOverwrites ==
    [][ \A d \in DagIds :
            (req'.op = "api_create_dag_run" /\ resp'.status = OK /\ req'.args.dag_id = d) =>
                LET before == DictGet(dag_runs, d, EmptyDict)
                    after == DictGet(dag_runs, d, EmptyDict)'
                IN  /\ Len(after) = Len(before) + 1
                    /\ \A i \in 1..Len(before) : after[i] = before[i] ]_vars

----------------------------------------------------------------------------
(* The XCom listing (on SpecXCom).                                          *)

\* The entry passes every filter supplied; None and "" are filters left out.
MatchesFilters(x, dag_id, task_id, run_id, key) ==
    /\ Truthy(dag_id) => x.dag_id = dag_id
    /\ Truthy(task_id) => x.task_id = task_id
    /\ Truthy(run_id) => x.run_id = run_id
    /\ Truthy(key) => x.key = key

\* xs holds the entries of the set, each once.
EachOnce(xs, set) ==
    /\ {xs[i] : i \in 1..Len(xs)} = set
    /\ Len(xs) = Cardinality(set)

\* C35: list_xcom_values returns exactly the stored XCom entries that match
\* every filter supplied among dag_id, task_id, run_id and key, each entry
\* once; where a supplied filter value has no stored entries it returns the
\* empty list; and the call leaves the store as it was.  Stated at each call
\* of list_xcom_values for the filters of the call, and, at the calls that
\* follow a write of the store, for every combination of filters on the
\* store the call finds.
C35_ListXComReturnsTheMatches ==
    [][ req'.op = "list_xcom_values" =>
            LET f == req'.args
            IN  /\ resp'.status = Returned
                /\ UNCHANGED storeVars
                /\ EachOnce(resp'.body.value,
                            {x \in StoredXComs : MatchesFilters(x, f[1], f[2], f[3], f[4])})
                /\ req.op \in {"init", "add_xcom_value", "delete_xcom_value"} =>
                       \A d \in {NoneStr, "d1", "d2"}, t \in {"", "t1", "t2"},
                          r \in {NoneStr, "r1", "r3"}, k \in {NoneStr, "k2"} :
                           EachOnce(list_xcom_values(d, t, r, k),
                                    {x \in StoredXComs : MatchesFilters(x, d, t, r, k)}) ]_vars

\* Entries of key "k1" for runs "r1" and "r2" and of key "k2" for run "r1"
\* are stored and the entries of run "r1" were listed: the two of that run,
\* not the third; the same filters under DAG "d2" give the empty list.
C35_Witness ==
    /\ Cardinality(StoredXComs) = 3
    /\ req = [op |-> "list_xcom_values", args |-> <<"d1", "t1", "r1", NoneStr>>]
    /\ Len(resp.body.value) = 2
    /\ \A i \in 1..2 : resp.body.value[i].run_id = "r1"
    /\ get_xcom_value("d1", "t1", "k1", "r2") # NoneObj
    /\ list_xcom_values("d2", "t1", "r1", NoneStr) = << >>
====
